---------------------------- MODULE Spec2Model ----------------------------
(***************************************************************************)
(* A model of the rustls connection core: the connection driver of         *)
(* rustls/src/conn.rs (ConnectionCommon / CommonState) together with the   *)
(* collaborators it calls (chunk buffers, record layer, fragmenter,        *)
(* deframer, handshake joiner, handshake states).                          *)
(*                                                                         *)
(* Values are kept uniform so that any two states can be compared:         *)
(*   - a TLS record (OpaqueMessage / PlainMessage / Message) is a record   *)
(*     with the fields of Msg below, unused fields holding "-", <<>> or 0; *)
(*   - a chunk of a ChunkVecBuffer is [data, off, len]: data is what was   *)
(*     appended, off the bytes already consumed from its front and len     *)
(*     the bytes that remain;                                              *)
(*   - a Result is [ok, err, ...] with err = "None" when ok.               *)
(***************************************************************************)
EXTENDS Integers, Sequences, FiniteSets, TLC

\* ------------------------------------------------------------------------
\* Bounds of the model
\* ------------------------------------------------------------------------
\* width in bits of the (scaled) record sequence counters
SeqBits == 3
\* largest payload of one outgoing fragment (scaled max_fragment_size)
MaxFrag == 2
\* most chunks of plaintext buffered before the handshake completes
MaxPlainChunks == 2
\* most records waiting in sendable_tls when the caller adds more work
MaxTls == 1
\* most bytes of received plaintext left unread when more is read
MaxUnread == 1
\* most records decrypted under one key before the peer pauses
MaxReadSeq == 3
\* depth of nested sends after which the call stack is exhausted
StackDepth == 3
\* most reads in which a transport delivers bytes to one call of complete_io
MaxStream == 2
\* longest list of cipher suites handed to the selection functions, the full
\* registry apart
MaxSuites == 2

\* ------------------------------------------------------------------------
\* Small helpers
\* ------------------------------------------------------------------------
Min(a, b) == IF a < b THEN a ELSE b

Max(a, b) == IF a < b THEN b ELSE a

RECURSIVE Pow2(_)
Pow2(n) == IF n = 0 THEN 1 ELSE 2 * Pow2(n - 1)

RECURSIVE SumLen(_)
SumLen(chunks) ==
    IF chunks = <<>> THEN 0 ELSE Head(chunks).len + SumLen(Tail(chunks))

RECURSIVE Concat(_)
Concat(seqs) ==
    IF seqs = <<>> THEN <<>> ELSE Head(seqs) \o Concat(Tail(seqs))

\* slice.chunks(n): consecutive pieces of at most n elements, none empty
RECURSIVE SliceChunks(_, _)
SliceChunks(s, n) ==
    IF s = <<>> THEN <<>>
    ELSE <<SubSeq(s, 1, Min(n, Len(s)))>>
             \o SliceChunks(SubSeq(s, Min(n, Len(s)) + 1, Len(s)), n)

\* ------------------------------------------------------------------------
\* Messages
\* ------------------------------------------------------------------------
\* The fields of every TLS record of the model.
\*   typ          content type
\*   level, description   alert payload
\*   hs           handshake payload, a sequence of HsToken
\*   data         application data bytes
\*   wf           the payload parses (Message::try_from succeeds)
\*   crypt        how an incoming record fares under the current decrypter
\*   enc, epoch, seq      protection applied to an outgoing record
Msg(typ, level, description, hs, data) ==
    [typ |-> typ, level |-> level, description |-> description,
     hs |-> hs, data |-> data, wf |-> TRUE, crypt |-> "ok",
     enc |-> FALSE, epoch |-> 0, seq |-> 0]

\* Message::build_alert
build_alert(level, desc) == Msg("Alert", level, desc, <<>>, <<>>)

\* A handshake message of type ty is encoded as a head token naming it
\* followed by a tail token; ver is the version a hello message settles.
\* A hello carries the 32 bytes of its sender's random (rnd), here zeros.
Random == [i \in 1..32 |-> 0]

HsHead(ty, ver) ==
    [k |-> "hd", ty |-> ty, ver |-> ver,
     rnd |-> IF ty \in {"ClientHello", "ServerHello"} THEN Random ELSE <<>>]

HsTail == [k |-> "tl", ty |-> "-", ver |-> "-", rnd |-> <<>>]

\* a hello with the random given
HsHello(ty, ver, rnd) == <<[HsHead(ty, ver) EXCEPT !.rnd = rnd], HsTail>>

HsEncode(ty, ver) == <<HsHead(ty, ver), HsTail>>

build_handshake(ty, ver) == Msg("Handshake", "-", "-", HsEncode(ty, ver), <<>>)

build_ccs == Msg("ChangeCipherSpec", "-", "-", <<>>, <<>>)

build_appdata(data) == Msg("ApplicationData", "-", "-", <<>>, data)

\* bytes of payload a record carries
PayloadLen(m) ==
    CASE m.typ = "Alert" -> 2
      [] m.typ = "ChangeCipherSpec" -> 1
      [] m.typ = "Handshake" -> Len(m.hs)
      [] OTHER -> Len(m.data)

\* content-type(1), version(2), length(2)
RecordHeaderLen == 5

\* bytes an AEAD adds to a protected record
AeadOverhead == 16

\* OpaqueMessage::encode: the length of the encoded record
EncodedLen(m) ==
    RecordHeaderLen + PayloadLen(m) + (IF m.enc THEN AeadOverhead ELSE 0)

\* Result values
Ok == [ok |-> TRUE, err |-> "None"]

Err(e) == [ok |-> FALSE, err |-> e]

\* ------------------------------------------------------------------------
\* ChunkVecBuffer
\* ------------------------------------------------------------------------
\* Option<usize>
None == [some |-> FALSE, v |-> 0]

Some(n) == [some |-> TRUE, v |-> n]

ChunkVecBuffer_new(limit) == [chunks |-> <<>>, limit |-> limit]

Chunk(data, len) == [data |-> data, off |-> 0, len |-> len]

is_empty(buf) == buf.chunks = <<>>

len(buf) == SumLen(buf.chunks)

set_limit(buf, limit) == [buf EXCEPT !.limit = limit]

\* how many of n bytes fit under the limit
apply_limit(buf, n) ==
    IF ~buf.limit.some THEN n
    ELSE Min(n, Max(0, buf.limit.v - len(buf)))

\* append never stores an empty chunk
append(buf, data, n) ==
    IF n = 0 THEN buf
    ELSE [buf EXCEPT !.chunks = Append(@, Chunk(data, n))]

append_limited_copy(buf, bytes) ==
    LET take == apply_limit(buf, Len(bytes))
    IN [buf |-> append(buf, SubSeq(bytes, 1, take), take), n |-> take]

pop(buf) ==
    IF buf.chunks = <<>> THEN [buf |-> buf, some |-> FALSE, chunk |-> Chunk(<<>>, 0)]
    ELSE [buf |-> [buf EXCEPT !.chunks = Tail(@)], some |-> TRUE,
          chunk |-> Head(buf.chunks)]

\* drop used bytes from the front
RECURSIVE consume_chunks(_, _)
consume_chunks(chunks, used) ==
    IF chunks = <<>> \/ used = 0 THEN chunks
    ELSE IF used >= Head(chunks).len
         THEN consume_chunks(Tail(chunks), used - Head(chunks).len)
         ELSE <<[Head(chunks) EXCEPT !.off = @ + used, !.len = @ - used]>>
                 \o Tail(chunks)

consume(buf, used) == [buf EXCEPT !.chunks = consume_chunks(@, used)]

\* the bytes still held by a chunk of plaintext
ChunkBytes(ch) == SubSeq(ch.data, ch.off + 1, ch.off + ch.len)

\* all plaintext bytes of a buffer, in order
BufBytes(buf) == Concat([i \in 1..Len(buf.chunks) |-> ChunkBytes(buf.chunks[i])])

\* ChunkVecBuffer::read into a buffer of n bytes
cvb_read(buf, n) ==
    LET all == BufBytes(buf)
        k == Min(n, Len(all))
    IN [buf |-> consume(buf, k), bytes |-> SubSeq(all, 1, k)]

\* ChunkVecBuffer::write_to a writer that takes used bytes
write_to(buf, used) ==
    LET k == Min(used, len(buf))
    IN [buf |-> consume(buf, k), n |-> k]

\* ------------------------------------------------------------------------
\* Record layer
\* ------------------------------------------------------------------------
SeqModulus == Pow2(SeqBits)

\* sequence number at which the connection asks to close
SEQ_SOFT_LIMIT == SeqModulus - Pow2(SeqBits - 1)

\* sequence number at which the layer refuses to encrypt
SEQ_HARD_LIMIT == SeqModulus - 2

RecordLayer_new ==
    [encrypt_state |-> "Invalid", decrypt_state |-> "Invalid",
     write_seq |-> 0, read_seq |-> 0, write_epoch |-> 0]

is_encrypting(rl) == rl.encrypt_state = "Active"

is_decrypting(rl) == rl.decrypt_state = "Active"

prepare_message_encrypter(rl) ==
    [rl EXCEPT !.encrypt_state = "Prepared", !.write_seq = 0,
               !.write_epoch = @ + 1]

prepare_message_decrypter(rl) ==
    [rl EXCEPT !.decrypt_state = "Prepared", !.read_seq = 0]

start_encrypting(rl) == [rl EXCEPT !.encrypt_state = "Active"]

start_decrypting(rl) == [rl EXCEPT !.decrypt_state = "Active"]

set_message_encrypter(rl) == start_encrypting(prepare_message_encrypter(rl))

set_message_decrypter(rl) == start_decrypting(prepare_message_decrypter(rl))

wants_close_before_encrypt(rl) == rl.write_seq >= SEQ_SOFT_LIMIT

wants_close_before_decrypt(rl) == rl.read_seq >= SEQ_SOFT_LIMIT

encrypt_exhausted(rl) == rl.write_seq >= SEQ_HARD_LIMIT

\* seal one fragment under the current key and sequence number
encrypt_outgoing(rl, m) ==
    [rl |-> [rl EXCEPT !.write_seq = (@ + 1) % SeqModulus],
     em |-> [m EXCEPT !.enc = TRUE, !.epoch = rl.write_epoch,
                      !.seq = rl.write_seq]]

\* open one record: the record says how it fares under the current key
rl_decrypt_incoming(rl, encr) ==
    CASE encr.crypt = "oversized" ->
           [rl |-> rl, res |-> Err("PeerSentOversizedRecord"), msg |-> encr]
      [] encr.crypt = "badmac" ->
           [rl |-> rl, res |-> Err("DecryptError"), msg |-> encr]
      [] OTHER ->
           [rl |-> [rl EXCEPT !.read_seq = (@ + 1) % SeqModulus],
            res |-> Ok, msg |-> encr]

\* ------------------------------------------------------------------------
\* Fragmenter
\* ------------------------------------------------------------------------
\* MessageFragmenter::fragment: the message in pieces of at most MaxFrag
\* payload bytes; a message with an empty payload yields no piece.  Alerts
\* and ChangeCipherSpec are never larger than one fragment.
fragment(m) ==
    CASE m.typ = "Handshake" ->
           LET ps == SliceChunks(m.hs, MaxFrag)
           IN [i \in 1..Len(ps) |-> [m EXCEPT !.hs = ps[i]]]
      [] m.typ = "ApplicationData" ->
           LET ps == SliceChunks(m.data, MaxFrag)
           IN [i \in 1..Len(ps) |-> [m EXCEPT !.data = ps[i]]]
      [] OTHER -> <<m>>

\* MessageFragmenter::fragment_borrow for application data
fragment_borrow(payload) == fragment(build_appdata(payload))

\* ------------------------------------------------------------------------
\* CommonState
\* ------------------------------------------------------------------------
DEFAULT_BUFFER_LIMIT == 64 * 1024

\* CommonState::new.  fault is not a field of the program: it records that
\* the process died ("stack overflow", "panic") while running an operation.
CommonState_new(is_client) ==
    [negotiated_version |-> "None",
     is_client |-> is_client,
     record_layer |-> RecordLayer_new,
     aligned_handshake |-> TRUE,
     traffic |-> FALSE,
     early_traffic |-> FALSE,
     sent_fatal_alert |-> FALSE,
     received_plaintext |-> ChunkVecBuffer_new(Some(0)),
     sendable_plaintext |-> ChunkVecBuffer_new(Some(DEFAULT_BUFFER_LIMIT)),
     sendable_tls |-> ChunkVecBuffer_new(Some(DEFAULT_BUFFER_LIMIT)),
     debug_assert_failed |-> FALSE,
     fault |-> "None"]

is_tls13(cs) == cs.negotiated_version = "TLSv1_3"

\* a queue that drops the record that does not fit under the limit
queue_tls_message_limited(cs, m) ==
    IF apply_limit(cs.sendable_tls, EncodedLen(m)) < EncodedLen(m) THEN cs
    ELSE [cs EXCEPT !.sendable_tls = append(@, m, EncodedLen(m))]

\* Put m into sendable_tls for writing.
queue_tls_message(cs, m) ==
    [cs EXCEPT !.sendable_tls = append(@, m, EncodedLen(m))]

RECURSIVE queue_tls_messages(_, _)
queue_tls_messages(cs, ms) ==
    IF ms = <<>> THEN cs
    ELSE queue_tls_messages(queue_tls_message(cs, Head(ms)), Tail(ms))

\* The senders call each other: send_single_fragment -> send_close_notify
\* -> send_warning_alert_no_log -> send_msg -> send_msg_encrypt ->
\* send_single_fragment.  d counts the nesting of send_single_fragment; a
\* nesting deeper than StackDepth exhausts the stack and the process dies.
RECURSIVE send_single_fragment(_, _, _)
RECURSIVE send_fragments(_, _, _)
RECURSIVE send_msg_encrypt(_, _, _)
RECURSIVE send_msg(_, _, _, _)
RECURSIVE send_warning_alert_no_log(_, _, _)
RECURSIVE send_close_notify(_, _)

\* a sender that seals a fragment and forgets to keep the advanced counter
send_single_fragment_reusing(cs, m, d) ==
    IF cs.fault # "None" THEN cs
    ELSE IF d > StackDepth THEN [cs EXCEPT !.fault = "stack overflow"]
    ELSE LET seal(cs1) ==
                 IF cs1.fault # "None" THEN cs1
                 ELSE IF encrypt_exhausted(cs1.record_layer) THEN cs1
                 ELSE queue_tls_message(cs1,
                                        encrypt_outgoing(cs1.record_layer, m).em)
         IN seal(IF wants_close_before_encrypt(cs.record_layer)
                 THEN send_close_notify(cs, d + 1)
                 ELSE cs)

send_single_fragment(cs, m, d) ==
    IF cs.fault # "None" THEN cs
    ELSE IF d > StackDepth THEN [cs EXCEPT !.fault = "stack overflow"]
    ELSE LET seal(cs1) ==
                 IF cs1.fault # "None" THEN cs1
                 ELSE IF encrypt_exhausted(cs1.record_layer) THEN cs1
                 ELSE LET r == encrypt_outgoing(cs1.record_layer, m)
                      IN queue_tls_message([cs1 EXCEPT !.record_layer = r.rl],
                                           r.em)
         \* Close connection once we start to run out of sequence space.
         IN seal(IF wants_close_before_encrypt(cs.record_layer)
                 THEN send_close_notify(cs, d + 1)
                 ELSE cs)

send_fragments(cs, ms, d) ==
    IF ms = <<>> THEN cs
    ELSE send_fragments(send_single_fragment(cs, Head(ms), d), Tail(ms), d)

\* Fragment m, encrypt the fragments, and then queue them.
send_msg_encrypt(cs, m, d) == send_fragments(cs, fragment(m), d)

\* Send a raw TLS message, fragmenting it if needed.
send_msg(cs, m, must_encrypt, d) ==
    IF ~must_encrypt
    THEN queue_tls_messages(cs, fragment(m))
    ELSE send_msg_encrypt(cs, m, d)

send_warning_alert_no_log(cs, desc, d) ==
    send_msg(cs, build_alert("Warning", desc), is_encrypting(cs.record_layer), d)

send_close_notify(cs, d) == send_warning_alert_no_log(cs, "CloseNotify", d)

send_warning_alert(cs, desc) == send_warning_alert_no_log(cs, desc, 0)

send_fatal_alert(cs, desc) ==
    LET cs1 == [cs EXCEPT !.debug_assert_failed = @ \/ cs.sent_fatal_alert]
        cs2 == send_msg(cs1, build_alert("Fatal", desc),
                        is_encrypting(cs.record_layer), 0)
    IN [cs2 EXCEPT !.sent_fatal_alert = TRUE]

\* an encryption of application data that never consults the limit
send_appdata_encrypt_unlimited(cs, payload, limit) ==
    [cs |-> send_fragments(cs, fragment_borrow(payload), 0), n |-> Len(payload)]

\* an encryption of application data that sends what it accepts as one
\* record, without the fragmenter
send_appdata_encrypt_one_record(cs, payload, limit) ==
    LET n == IF limit THEN apply_limit(cs.sendable_tls, Len(payload))
             ELSE Len(payload)
    IN [cs |-> send_fragments(cs, <<build_appdata(SubSeq(payload, 1, n))>>, 0),
        n |-> n]

\* Like send_msg_encrypt, but operate on an appdata directly.
send_appdata_encrypt(cs, payload, limit) ==
    LET n == IF limit THEN apply_limit(cs.sendable_tls, Len(payload))
             ELSE Len(payload)
    IN [cs |-> send_fragments(cs, fragment_borrow(SubSeq(payload, 1, n)), 0),
        n |-> n]

\* Encrypt and send some plaintext data; limit says whether the buffer
\* limits apply.  Returns the number of bytes taken from data.
send_plain(cs, data, limit) ==
    IF ~cs.traffic
    THEN IF limit
         THEN LET r == append_limited_copy(cs.sendable_plaintext, data)
              IN [cs |-> [cs EXCEPT !.sendable_plaintext = r.buf], n |-> r.n]
         ELSE [cs |-> [cs EXCEPT !.sendable_plaintext =
                                    append(@, data, Len(data))],
               n |-> Len(data)]
    ELSE IF data = <<>> THEN [cs |-> cs, n |-> 0]
    ELSE send_appdata_encrypt(cs, data, limit)

\* Send any buffered plaintext.
RECURSIVE flush_plaintext(_)
flush_plaintext(cs) ==
    IF ~cs.traffic THEN cs
    ELSE LET p == pop(cs.sendable_plaintext)
         IN IF ~p.some THEN cs
            ELSE flush_plaintext(
                   send_plain([cs EXCEPT !.sendable_plaintext = p.buf],
                              ChunkBytes(p.chunk), FALSE).cs)

\* entering traffic and leaving the buffered plaintext where it is
start_traffic_without_flush(cs) == [cs EXCEPT !.traffic = TRUE]

start_traffic(cs) == flush_plaintext([cs EXCEPT !.traffic = TRUE])

take_received_plaintext(cs, bytes) ==
    [cs EXCEPT !.received_plaintext = append(@, bytes, Len(bytes))]

start_encryption_tls12(cs) ==
    [cs EXCEPT !.record_layer =
                  prepare_message_decrypter(prepare_message_encrypter(@))]

\* Changing the keys must not span any fragmented handshake message.
check_aligned_handshake(cs) ==
    IF ~cs.aligned_handshake
    THEN [cs |-> send_fatal_alert(cs, "UnexpectedMessage"),
          res |-> Err("PeerMisbehavedError: key epoch or handshake flight with pending fragment")]
    ELSE [cs |-> cs, res |-> Ok]

illegal_param(cs, why) ==
    [cs |-> send_fatal_alert(cs, "IllegalParameter"),
     res |-> Err(why)]

\* a decrypter that reports every failure without an alert
cs_decrypt_incoming_silent(cs, encr) ==
    LET open(cs1) ==
            LET rc == rl_decrypt_incoming(cs1.record_layer, encr)
            IN [cs |-> [cs1 EXCEPT !.record_layer = rc.rl],
                res |-> rc.res, msg |-> rc.msg]
    IN open(IF wants_close_before_decrypt(cs.record_layer)
            THEN send_close_notify(cs, 0)
            ELSE cs)

cs_decrypt_incoming(cs, encr) ==
    LET open(cs1) ==
            LET rc == rl_decrypt_incoming(cs1.record_layer, encr)
                cs2 == [cs1 EXCEPT !.record_layer = rc.rl]
            IN [cs |-> IF rc.res.err = "PeerSentOversizedRecord"
                       THEN send_fatal_alert(cs2, "RecordOverflow")
                       ELSE cs2,
                res |-> rc.res, msg |-> rc.msg]
    IN open(IF wants_close_before_decrypt(cs.record_layer)
            THEN send_close_notify(cs, 0)
            ELSE cs)

\* ------------------------------------------------------------------------
\* Deframer and handshake joiner
\* ------------------------------------------------------------------------
\* frames: the records parsed so far; used: bytes of an incomplete record
\* held in the read buffer; desynced: a structural violation was seen
MessageDeframer_new == [frames |-> <<>>, used |-> 0, desynced |-> FALSE]

has_pending(d) == d.frames # <<>> \/ d.used > 0

\* frames: the handshake messages assembled so far; buf: the bytes of a
\* message that is not complete yet
HandshakeJoiner_new == [frames |-> <<>>, buf |-> <<>>]

want_message(msg) == msg.typ = "Handshake"

joiner_is_empty(j) == j.buf = <<>>

\* parse complete messages off the front of buf
RECURSIVE joiner_parse(_)
joiner_parse(j) ==
    IF j.buf = <<>> THEN [j |-> j, some |-> TRUE]
    ELSE IF Head(j.buf).k # "hd" THEN [j |-> j, some |-> FALSE]
    ELSE IF Len(j.buf) < 2 THEN [j |-> j, some |-> TRUE]
    ELSE IF j.buf[2].k # "tl" THEN [j |-> j, some |-> FALSE]
    ELSE joiner_parse(
           [frames |-> Append(j.frames,
                              Msg("Handshake", "-", "-", SubSeq(j.buf, 1, 2), <<>>)),
            buf |-> SubSeq(j.buf, 3, Len(j.buf))])

take_message(j, msg) == joiner_parse([j EXCEPT !.buf = @ \o msg.hs])

\* Message::is_handshake_type
is_handshake_type(msg, ty) == msg.typ = "Handshake" /\ Head(msg.hs).ty = ty

\* Message::try_from: the payload parses or not
Message_try_from(msg) ==
    IF msg.wf THEN Ok ELSE Err("CorruptMessagePayload")

\* ------------------------------------------------------------------------
\* Handshake states
\* ------------------------------------------------------------------------
\* The state slot holds "None" or one of these states.
HandshakeStates == {"ExpectHello", "ExpectCCS", "ExpectFinished", "ExpectTraffic"}

\* the hello this side waits for
HelloType(cs) == IF cs.is_client THEN "ServerHello" ELSE "ClientHello"

\* check_message: an off-path message
inappropriate(msg) ==
    IF msg.typ = "Handshake" THEN Err("InappropriateHandshakeMessage")
    ELSE Err("InappropriateMessage")

Handled(cs, res, next) == [cs |-> cs, res |-> res, next |-> next]

\* versions.rs: the versions a configuration enables by default
TLS13 == "TLSv1_3"

TLS12 == "TLSv1_2"

ALL_VERSIONS == <<TLS13, TLS12>>

DEFAULT_VERSIONS == ALL_VERSIONS

\* config.supports_version(v), the configuration being the default one
supports_version(v) == \E i \in 1..Len(DEFAULT_VERSIONS) : DEFAULT_VERSIONS[i] = v

TLS12_DOWNGRADE_SENTINEL == <<68, 79, 87, 78, 71, 82, 68, 1>>

ConnectionRandoms_new(client, server, we_are_client) ==
    [we_are_client |-> we_are_client, client |-> client, server |-> server]

\* a marker written one byte early
set_tls12_downgrade_marker_one_early(self) ==
    [panic |-> self.we_are_client,
     self |-> IF self.we_are_client THEN self
              ELSE [self EXCEPT !.server =
                       SubSeq(@, 1, 23) \o TLS12_DOWNGRADE_SENTINEL \o <<@[32]>>]]

\* assert!(!self.we_are_client); self.server[24..] = SENTINEL
set_tls12_downgrade_marker(self) ==
    [panic |-> self.we_are_client,
     self |-> IF self.we_are_client THEN self
              ELSE [self EXCEPT !.server =
                       SubSeq(@, 1, 24) \o TLS12_DOWNGRADE_SENTINEL]]

\* a test that looks for the sentinel at the front of the server random
has_tls12_downgrade_marker_at_front(self) ==
    [panic |-> ~self.we_are_client,
     v |-> self.we_are_client
             /\ SubSeq(self.server, 1, 8) = TLS12_DOWNGRADE_SENTINEL]

\* assert!(self.we_are_client); self.server[24..] == SENTINEL
has_tls12_downgrade_marker(self) ==
    [panic |-> ~self.we_are_client,
     v |-> self.we_are_client
             /\ SubSeq(self.server, 25, 32) = TLS12_DOWNGRADE_SENTINEL]

Downgrade == "PeerMisbehavedError: downgrade to TLS1.2 when TLS1.3 is supported"

\* the hello settles the version; TLS 1.3 installs handshake keys at once,
\* TLS 1.2 prepares its keys and waits for ChangeCipherSpec
handle_hello(cs, msg) ==
    LET ver == Head(msg.hs).ver
        cs1 == [cs EXCEPT !.negotiated_version = ver]
        \* the server marks its random when it settles for TLS 1.2 though it
        \* supports TLS 1.3
        randoms ==
            IF cs.is_client
            THEN ConnectionRandoms_new(Random, Head(msg.hs).rnd, TRUE)
            ELSE LET ours == ConnectionRandoms_new(Head(msg.hs).rnd, Random, FALSE)
                 IN IF ver = "TLSv1_2" /\ supports_version("TLSv1_3")
                    THEN set_tls12_downgrade_marker(ours).self
                    ELSE ours
        keyed(a) ==
            LET cs3 == [a.cs EXCEPT !.record_layer =
                           set_message_decrypter(set_message_encrypter(@))]
            IN IF ~a.res.ok THEN Handled(a.cs, a.res, "None")
               ELSE Handled(IF cs.is_client THEN cs3
                            ELSE send_msg(cs3, build_handshake("Finished", "-"),
                                          TRUE, 0),
                            Ok, "ExpectFinished")
        refused(a) == Handled(a.cs, a.res, "None")
        answered(cs2) ==
            IF ver = "TLSv1_3" THEN keyed(check_aligned_handshake(cs2))
            ELSE IF /\ cs.is_client
                    /\ supports_version("TLSv1_3")
                    /\ has_tls12_downgrade_marker(randoms).v
            THEN refused(illegal_param(cs2, Downgrade))
            ELSE Handled(start_encryption_tls12(cs2), Ok, "ExpectCCS")
    IN answered(IF cs.is_client THEN cs1
                ELSE send_msg(cs1,
                              Msg("Handshake", "-", "-",
                                  HsHello("ServerHello", ver, randoms.server),
                                  <<>>),
                              FALSE, 0))

\* TLS 1.2: the peer's ChangeCipherSpec starts decryption
handle_ccs(cs, msg) ==
    LET checked(a) ==
            IF ~a.res.ok THEN Handled(a.cs, a.res, "None")
            ELSE Handled([cs EXCEPT !.record_layer = start_decrypting(@)], Ok,
                         "ExpectFinished")
    IN checked(check_aligned_handshake(cs))

\* the peer's Finished completes the handshake
handle_finished(cs, msg) ==
    IF is_tls13(cs)
    THEN LET rekey(cs1) ==
                 [cs1 EXCEPT !.record_layer =
                     set_message_decrypter(set_message_encrypter(@))]
             checked(a) ==
                 IF ~a.res.ok THEN Handled(a.cs, a.res, "None")
                 ELSE Handled(
                        start_traffic(
                          rekey(IF cs.is_client
                                THEN send_msg(a.cs, build_handshake("Finished", "-"),
                                              TRUE, 0)
                                ELSE a.cs)),
                        Ok, "ExpectTraffic")
         IN checked(check_aligned_handshake(cs))
    ELSE LET encrypting(cs1) == [cs1 EXCEPT !.record_layer = start_encrypting(@)]
             checked(a) ==
                 IF ~a.res.ok THEN Handled(a.cs, a.res, "None")
                 ELSE Handled(
                        start_traffic(
                          send_msg(encrypting(send_msg(a.cs, build_ccs, FALSE, 0)),
                                   build_handshake("Finished", "-"), TRUE, 0)),
                        Ok, "ExpectTraffic")
         IN checked(check_aligned_handshake(cs))

\* TLS 1.3: the peer changes its sending key
handle_key_update(cs, msg) ==
    LET checked(a) ==
            IF ~a.res.ok THEN Handled(a.cs, a.res, "None")
            ELSE Handled([cs EXCEPT !.record_layer = set_message_decrypter(@)], Ok,
                         "ExpectTraffic")
    IN checked(check_aligned_handshake(cs))

\* HandleState::handle of the state st
handle(st, cs, msg) ==
    CASE st = "ExpectHello" /\ is_handshake_type(msg, HelloType(cs)) ->
           handle_hello(cs, msg)
      [] st = "ExpectCCS" /\ msg.typ = "ChangeCipherSpec" ->
           handle_ccs(cs, msg)
      [] st = "ExpectFinished" /\ is_handshake_type(msg, "Finished") ->
           handle_finished(cs, msg)
      [] st = "ExpectTraffic" /\ msg.typ = "ApplicationData" ->
           Handled(take_received_plaintext(cs, msg.data), Ok, "ExpectTraffic")
      [] st = "ExpectTraffic" /\ is_tls13(cs) /\ is_handshake_type(msg, "KeyUpdate") ->
           handle_key_update(cs, msg)
      [] OTHER -> Handled(cs, inappropriate(msg), "None")

\* ------------------------------------------------------------------------
\* The connection driver
\* ------------------------------------------------------------------------
\* a driver that hands every message to the current state
process_main_protocol_renegotiating(cs, msg, state) ==
    LET handled(h) ==
            IF h.res.ok
            THEN [cs |-> h.cs, state |-> h.next, res |-> Ok]
            ELSE IF h.res.err \in {"InappropriateMessage",
                                   "InappropriateHandshakeMessage"}
            THEN [cs |-> send_fatal_alert(h.cs, "UnexpectedMessage"),
                  state |-> "None", res |-> h.res]
            ELSE [cs |-> h.cs, state |-> "None", res |-> h.res]
    IN IF state = "None"
       THEN [cs |-> [cs EXCEPT !.fault = "panic: unwrap on None"],
             state |-> state, res |-> Ok]
       ELSE handled(handle(state, cs, msg))

\* a driver that answers every error of the state with the alert
process_main_protocol_alerting_all(cs, msg, state) ==
    LET reject_ty == IF cs.is_client THEN "HelloRequest" ELSE "ClientHello"
        handled(h) ==
            IF h.res.ok
            THEN [cs |-> h.cs, state |-> h.next, res |-> Ok]
            ELSE [cs |-> send_fatal_alert(h.cs, "UnexpectedMessage"),
                  state |-> "None", res |-> h.res]
    IN IF cs.traffic /\ ~is_tls13(cs) /\ is_handshake_type(msg, reject_ty)
       THEN [cs |-> send_warning_alert(cs, "NoRenegotiation"),
             state |-> state, res |-> Ok]
       ELSE IF state = "None"
       THEN [cs |-> [cs EXCEPT !.fault = "panic: unwrap on None"],
             state |-> state, res |-> Ok]
       ELSE handled(handle(state, cs, msg))

\* a driver that takes the state out of its slot before it looks for a
\* renegotiation request
process_main_protocol_taking_first(cs, msg, state) ==
    LET reject_ty == IF cs.is_client THEN "HelloRequest" ELSE "ClientHello"
        handled(h) ==
            IF h.res.ok
            THEN [cs |-> h.cs, state |-> h.next, res |-> Ok]
            ELSE IF h.res.err \in {"InappropriateMessage",
                                   "InappropriateHandshakeMessage"}
            THEN [cs |-> send_fatal_alert(h.cs, "UnexpectedMessage"),
                  state |-> "None", res |-> h.res]
            ELSE [cs |-> h.cs, state |-> "None", res |-> h.res]
    IN IF cs.traffic /\ ~is_tls13(cs) /\ is_handshake_type(msg, reject_ty)
       THEN [cs |-> send_warning_alert(cs, "NoRenegotiation"),
             state |-> "None", res |-> Ok]
       ELSE IF state = "None"
       THEN [cs |-> [cs EXCEPT !.fault = "panic: unwrap on None"],
             state |-> state, res |-> Ok]
       ELSE handled(handle(state, cs, msg))

\* Process msg: refuse renegotiation, else hand it to the current state.
process_main_protocol(cs, msg, state) ==
    LET reject_ty == IF cs.is_client THEN "HelloRequest" ELSE "ClientHello"
        handled(h) ==
            IF h.res.ok
            THEN [cs |-> h.cs, state |-> h.next, res |-> Ok]
            ELSE IF h.res.err \in {"InappropriateMessage",
                                   "InappropriateHandshakeMessage"}
            THEN [cs |-> send_fatal_alert(h.cs, "UnexpectedMessage"),
                  state |-> "None", res |-> h.res]
            ELSE [cs |-> h.cs, state |-> "None", res |-> h.res]
    IN IF cs.traffic /\ ~is_tls13(cs) /\ is_handshake_type(msg, reject_ty)
       THEN [cs |-> send_warning_alert(cs, "NoRenegotiation"),
             state |-> state, res |-> Ok]
       ELSE IF state = "None"
       THEN [cs |-> [cs EXCEPT !.fault = "panic: unwrap on None"],
             state |-> state, res |-> Ok]
       ELSE handled(handle(state, cs, msg))

ConnectionCommon_new(common_state) ==
    [common_state |-> common_state,
     peer_eof |-> FALSE,
     received_middlebox_ccs |-> FALSE,
     error |-> "None",
     message_deframer |-> MessageDeframer_new,
     handshake_joiner |-> HandshakeJoiner_new]

AlertReceived(desc) == "AlertReceived(" \o desc \o ")"

\* an alert handler that takes a close_notify for a close only at warning
\* level
process_alert_close_at_warning(c, alert) ==
    LET levelled(c1) ==
            IF alert.description = "CloseNotify" /\ alert.level = "Warning"
            THEN [c |-> [c1 EXCEPT !.peer_eof = TRUE], res |-> Ok]
            ELSE IF alert.level = "Warning"
                    /\ ~(is_tls13(c1.common_state)
                         /\ alert.description # "UserCanceled")
            THEN [c |-> c1, res |-> Ok]
            ELSE IF alert.level = "Warning"
            THEN [c |-> [c1 EXCEPT !.common_state =
                                      send_fatal_alert(@, "DecodeError")],
                  res |-> Err(AlertReceived(alert.description))]
            ELSE [c |-> c1, res |-> Err(AlertReceived(alert.description))]
    IN levelled(IF alert.level = "Unknown"
                THEN [c EXCEPT !.common_state =
                                  send_fatal_alert(@, "IllegalParameter")]
                ELSE c)

\* an alert handler that lets warnings pass under every version
process_alert_tolerant(c, alert) ==
    LET levelled(c1) ==
            IF alert.description = "CloseNotify"
            THEN [c |-> [c1 EXCEPT !.peer_eof = TRUE], res |-> Ok]
            ELSE IF alert.level = "Warning"
            THEN [c |-> c1, res |-> Ok]
            ELSE [c |-> c1, res |-> Err(AlertReceived(alert.description))]
    IN levelled(IF alert.level = "Unknown"
                THEN [c EXCEPT !.common_state =
                                  send_fatal_alert(@, "IllegalParameter")]
                ELSE c)

\* an alert handler that fails on every alert that is no close_notify
process_alert_strict(c, alert) ==
    LET levelled(c1) ==
            IF alert.description = "CloseNotify"
            THEN [c |-> [c1 EXCEPT !.peer_eof = TRUE], res |-> Ok]
            ELSE IF alert.level = "Warning"
            THEN [c |-> [c1 EXCEPT !.common_state =
                                      send_fatal_alert(@, "DecodeError")],
                  res |-> Err(AlertReceived(alert.description))]
            ELSE [c |-> c1, res |-> Err(AlertReceived(alert.description))]
    IN levelled(IF alert.level = "Unknown"
                THEN [c EXCEPT !.common_state =
                                  send_fatal_alert(@, "IllegalParameter")]
                ELSE c)

process_alert(c, alert) ==
    LET levelled(c1) ==
            \* A CloseNotify declares EOF to our caller.
            IF alert.description = "CloseNotify"
            THEN [c |-> [c1 EXCEPT !.peer_eof = TRUE], res |-> Ok]
            \* Warnings are nonfatal for TLS1.2, but outlawed in TLS1.3
            ELSE IF alert.level = "Warning"
                    /\ ~(is_tls13(c1.common_state)
                         /\ alert.description # "UserCanceled")
            THEN [c |-> c1, res |-> Ok]
            ELSE IF alert.level = "Warning"
            THEN [c |-> [c1 EXCEPT !.common_state =
                                      send_fatal_alert(@, "DecodeError")],
                  res |-> Err(AlertReceived(alert.description))]
            ELSE [c |-> c1, res |-> Err(AlertReceived(alert.description))]
    IN \* Reject unknown AlertLevels.
       levelled(IF alert.level = "Unknown"
                THEN [c EXCEPT !.common_state =
                                  send_fatal_alert(@, "IllegalParameter")]
                ELSE c)

\* mt is "None", "Handshake" or "Data"
Processed(c, res, mt, msg) == [c |-> c, res |-> res, mt |-> mt, msg |-> msg]

\* a ChangeCipherSpec that TLS 1.3 middlebox compatibility lets through
is_middlebox_ccs_anytime(c, msg) ==
    /\ msg.typ = "ChangeCipherSpec"
    /\ is_tls13(c.common_state)

is_middlebox_ccs(c, msg) ==
    /\ msg.typ = "ChangeCipherSpec"
    /\ ~c.common_state.traffic
    /\ is_tls13(c.common_state)

process_msg(c, msg) ==
    LET cs == c.common_state
        \* Decrypt if demanded by current state.
        decrypting == is_decrypting(cs.record_layer)
        joined(c1, plain, t) ==
            IF t.some
            THEN Processed([c1 EXCEPT !.handshake_joiner = t.j], Ok,
                           "Handshake", plain)
            ELSE Processed([c1 EXCEPT !.handshake_joiner = t.j,
                                      !.common_state =
                                         send_fatal_alert(@, "DecodeError")],
                           Err("CorruptMessagePayload"), "None", plain)
        alerted(a, plain) == Processed(a.c, a.res, "None", plain)
        opened(c1, plain) ==
            \* Handshake messages are joined before parsing and processing.
            IF want_message(plain)
            THEN joined(c1, plain, take_message(c1.handshake_joiner, plain))
            ELSE IF ~Message_try_from(plain).ok
            THEN Processed(c1, Message_try_from(plain), "None", plain)
            ELSE IF plain.typ = "Alert"
            THEN alerted(process_alert(c1, plain), plain)
            ELSE Processed(c1, Ok, "Data", plain)
        decrypted(d) ==
            IF ~d.res.ok
            THEN Processed([c EXCEPT !.common_state = d.cs], d.res, "None", msg)
            ELSE opened([c EXCEPT !.common_state = d.cs], d.msg)
    IN IF is_middlebox_ccs(c, msg)
       THEN IF c.received_middlebox_ccs
            THEN Processed(c, Err("PeerMisbehavedError: illegal middlebox CCS received"),
                           "None", msg)
            ELSE Processed([c EXCEPT !.received_middlebox_ccs = TRUE], Ok,
                           "None", msg)
       ELSE IF decrypting
       THEN decrypted(cs_decrypt_incoming(cs, msg))
       ELSE opened(c, msg)

RECURSIVE drain_joiner(_, _)
drain_joiner(c, state) ==
    IF c.handshake_joiner.frames = <<>> \/ c.common_state.fault # "None"
    THEN [c |-> c, state |-> state, res |-> Ok]
    ELSE LET msg == Head(c.handshake_joiner.frames)
             c1 == [c EXCEPT !.handshake_joiner.frames = Tail(@)]
             processed(r) ==
                 IF ~r.res.ok
                 THEN [c |-> [c1 EXCEPT !.common_state = r.cs],
                       state |-> r.state, res |-> r.res]
                 ELSE drain_joiner([c1 EXCEPT !.common_state = r.cs], r.state)
         IN processed(process_main_protocol(c.common_state, msg, state))

\* a drain of the joiner that never looks whether a fragment is pending
process_new_handshake_messages_unsnapshotted(c, state) ==
    drain_joiner(c, state)

process_new_handshake_messages(c, state) ==
    drain_joiner([c EXCEPT !.common_state.aligned_handshake =
                              joiner_is_empty(c.handshake_joiner)],
                 state)

IoState(tls_bytes_to_write, plaintext_bytes_to_read, peer_has_closed) ==
    [tls_bytes_to_write |-> tls_bytes_to_write,
     plaintext_bytes_to_read |-> plaintext_bytes_to_read,
     peer_has_closed |-> peer_has_closed]

NoIoState == IoState(0, 0, FALSE)

\* a report that counts the records waiting, not their bytes
current_io_state_in_records(c) ==
    IoState(Len(c.common_state.sendable_tls.chunks),
            len(c.common_state.received_plaintext),
            c.peer_eof)

current_io_state(c) ==
    IoState(len(c.common_state.sendable_tls),
            len(c.common_state.received_plaintext),
            c.peer_eof)

\* one turn of the loop of process_new_packets: the record msg, popped
process_one(c, state, msg) ==
    LET main(c1, mp) ==
            [c |-> [c1 EXCEPT !.common_state = mp.cs], state |-> mp.state,
             res |-> mp.res]
        processed(p) ==
            IF ~p.res.ok THEN [c |-> p.c, state |-> state, res |-> p.res]
            ELSE IF p.mt = "Handshake"
            THEN process_new_handshake_messages(p.c, state)
            ELSE IF p.mt = "Data"
            THEN main(p.c, process_main_protocol(p.c.common_state, p.msg, state))
            ELSE [c |-> p.c, state |-> state, res |-> Ok]
    IN processed(process_msg(c, msg))

\* a loop that pops the record deframed last
RECURSIVE process_frames_newest_first(_, _)
process_frames_newest_first(c, state) ==
    IF c.message_deframer.frames = <<>> \/ c.common_state.fault # "None"
    THEN [c |-> c, state |-> state, res |-> Ok, io |-> current_io_state(c)]
    ELSE LET n == Len(c.message_deframer.frames)
             msg == c.message_deframer.frames[n]
             processed(r) ==
                 IF ~r.res.ok
                 THEN [c |-> [r.c EXCEPT !.error = r.res.err], state |-> r.state,
                       res |-> r.res, io |-> NoIoState]
                 ELSE process_frames_newest_first(r.c, r.state)
         IN processed(process_one([c EXCEPT !.message_deframer.frames =
                                               SubSeq(@, 1, n - 1)],
                                  state, msg))

RECURSIVE process_frames(_, _)
process_frames(c, state) ==
    IF c.message_deframer.frames = <<>> \/ c.common_state.fault # "None"
    THEN [c |-> c, state |-> state, res |-> Ok, io |-> current_io_state(c)]
    ELSE LET msg == Head(c.message_deframer.frames)
             processed(r) ==
                 IF ~r.res.ok
                 THEN [c |-> [r.c EXCEPT !.error = r.res.err], state |-> r.state,
                       res |-> r.res, io |-> NoIoState]
                 ELSE process_frames(r.c, r.state)
         IN processed(process_one([c EXCEPT !.message_deframer.frames = Tail(@)],
                                  state, msg))

process_new_packets_uncached(c, state) ==
    IF c.message_deframer.desynced
    THEN [c |-> c, state |-> state, res |-> Err("CorruptMessage"), io |-> NoIoState]
    ELSE process_frames(c, state)

\* a driver that processes what the deframer queued before it lost track
process_new_packets_ignoring_desync(c, state) ==
    IF c.error # "None"
    THEN [c |-> c, state |-> state, res |-> Err(c.error), io |-> NoIoState]
    ELSE process_frames(c, state)

process_new_packets(c, state) ==
    IF c.error # "None"
    THEN [c |-> c, state |-> state, res |-> Err(c.error), io |-> NoIoState]
    ELSE IF c.message_deframer.desynced
    THEN [c |-> c, state |-> state, res |-> Err("CorruptMessage"), io |-> NoIoState]
    ELSE process_frames(c, state)

\* a connection that wants to read whatever is waiting to be written
wants_read_ignoring_writes(c) ==
    /\ is_empty(c.common_state.received_plaintext)
    /\ ~c.peer_eof

wants_read(c) ==
    /\ is_empty(c.common_state.received_plaintext)
    /\ ~c.peer_eof
    /\ (c.common_state.traffic \/ is_empty(c.common_state.sendable_tls))

wants_write(c) == ~is_empty(c.common_state.sendable_tls)

is_handshaking(c) == ~c.common_state.traffic

\* a setter that forgets the plaintext buffer
set_buffer_limit_tls_only(c, limit) ==
    [c EXCEPT !.common_state.sendable_tls = set_limit(@, limit)]

set_buffer_limit(c, limit) ==
    [c EXCEPT !.common_state.sendable_plaintext = set_limit(@, limit),
              !.common_state.sendable_tls = set_limit(@, limit)]

\* a reader that reports end of file as soon as the peer has closed
connection_at_eof_ignoring_pending(c) == c.peer_eof

\* ConnectionCommon::reader: are we done, i.e. have we processed all
\* received messages and received a close_notify?
connection_at_eof(c) == c.peer_eof /\ ~has_pending(c.message_deframer)

\* Reader::read into a buffer of n bytes

\* a reader that reports end of file whenever it has no plaintext
reader_read_eof_on_empty(c, n) ==
    LET r == cvb_read(c.common_state.received_plaintext, n)
    IN [c |-> [c EXCEPT !.common_state.received_plaintext = r.buf],
        res |-> Ok, bytes |-> r.bytes]

reader_read(c, n) ==
    LET r == cvb_read(c.common_state.received_plaintext, n)
        c1 == [c EXCEPT !.common_state.received_plaintext = r.buf]
    IN IF Len(r.bytes) = 0 /\ n # 0 /\ ~connection_at_eof(c)
       THEN [c |-> c1, res |-> Err("WouldBlock"), bytes |-> <<>>]
       ELSE [c |-> c1, res |-> Ok, bytes |-> r.bytes]

\* a writer that takes everything, whatever the buffers hold
send_some_plaintext_unlimited(c, data) ==
    LET r == send_plain(c.common_state, data, FALSE)
    IN [c |-> [c EXCEPT !.common_state = r.cs], n |-> r.n]

\* Send plaintext application data, fragmenting and encrypting it.
send_some_plaintext(c, data) ==
    LET r == send_plain(c.common_state, data, TRUE)
    IN [c |-> [c EXCEPT !.common_state = r.cs], n |-> r.n]

\* CommonState::write_tls to a writer that takes used bytes
write_tls(c, used) ==
    LET r == write_to(c.common_state.sendable_tls, used)
    IN [c |-> [c EXCEPT !.common_state.sendable_tls = r.buf], n |-> r.n]

\* ------------------------------------------------------------------------
\* complete_io
\* ------------------------------------------------------------------------
\* Connection::read_tls: the deframer reads from the transport, which yields
\* the records recs and then nothing more (tail "none"), the first bytes of a
\* further record ("partial") or bytes that are no record ("garbage").
read_tls(c, recs, tail) ==
    [c EXCEPT !.message_deframer =
        [frames |-> @.frames \o recs,
         used |-> IF tail = "partial" THEN 1 ELSE 0,
         desynced |-> @.desynced \/ tail = "garbage"]]

\* the bytes one read of the transport returns
RECURSIVE ReadLen(_, _)
ReadLen(recs, tail) ==
    IF recs = <<>> THEN (IF tail = "none" THEN 0 ELSE 1)
    ELSE EncodedLen(Head(recs)) + ReadLen(Tail(recs), tail)

\* the bytes a transport takes of buf in one write: all of them, or the
\* first record; a broken transport takes none and fails
Taken(buf, take) ==
    IF is_empty(buf) \/ take = "broken" THEN 0
    ELSE IF take = "all" THEN len(buf)
    ELSE Head(buf.chunks).len

\* Connection::write_tls on such a transport: err is the I/O error of the
\* transport, met only when there is something to write
io_write_tls(c, take) ==
    LET wrote(w) ==
            [c |-> w.c, n |-> w.n,
             err |-> IF take = "broken" /\ wants_write(c) THEN "BrokenPipe"
                     ELSE "None"]
    IN wrote(write_tls(c, Taken(c.common_state.sendable_tls, take)))

\* the call never returns: the process is alive but the caller is stuck
NeverReturns == "never returns"

\* a single write in place of the loop
complete_io_write_once(c, take, wrlen, calls) ==
    IF ~wants_write(c)
    THEN [c |-> c, wrlen |-> wrlen, calls |-> calls, err |-> "None"]
    ELSE LET written(w) ==
                 [c |-> w.c, wrlen |-> wrlen + w.n,
                  calls |-> Append(calls, "write_tls"), err |-> w.err]
         IN written(io_write_tls(c, take))

\* while self.wants_write() { wrlen += self.write_tls(io)?; }
RECURSIVE complete_io_write(_, _, _, _)
complete_io_write(c, take, wrlen, calls) ==
    IF ~wants_write(c)
    THEN [c |-> c, wrlen |-> wrlen, calls |-> calls, err |-> "None"]
    ELSE LET written(w) ==
                 IF w.err # "None"
                 THEN [c |-> w.c, wrlen |-> wrlen,
                       calls |-> Append(calls, "write_tls"), err |-> w.err]
                 ELSE complete_io_write(w.c, take, wrlen + w.n,
                                        Append(calls, "write_tls"))
         IN written(io_write_tls(c, take))

\* if !eof && self.wants_read() { match self.read_tls(io)? { 0 => eof = true,
\* n => rdlen += n } }: io is what the transport still has to deliver, one
\* element a read; an exhausted transport is at end of file.
complete_io_read(c, io, eof, rdlen, calls) ==
    IF eof \/ ~wants_read(c)
    THEN [c |-> c, io |-> io, eof |-> eof, rdlen |-> rdlen, calls |-> calls]
    ELSE IF io = <<>>
    THEN [c |-> c, io |-> io, eof |-> TRUE, rdlen |-> rdlen,
          calls |-> Append(calls, "read_tls")]
    ELSE [c |-> read_tls(c, Head(io).recs, Head(io).tail), io |-> Tail(io),
          eof |-> FALSE,
          rdlen |-> rdlen + ReadLen(Head(io).recs, Head(io).tail),
          calls |-> Append(calls, "read_tls")]

\* what complete_io returns, and the connection it leaves
IoDone(c, st, res, rdlen, wrlen, calls, cause) ==
    [c |-> c, state |-> st, res |-> res, rdlen |-> rdlen, wrlen |-> wrlen,
     calls |-> calls, cause |-> cause]

\* a last write whose I/O error is returned in place of the TLS error
complete_io_last_gasp_propagating(p, take, rdlen, wrlen, calls) ==
    LET last(w) ==
            IoDone(w.c, p.state,
                   IF w.err # "None" THEN Err(w.err) ELSE Err("InvalidData"),
                   rdlen, wrlen, Append(calls, "write_tls"), p.res.err)
    IN last(io_write_tls(p.c, take))

\* Err(e) => { let _ignored = self.write_tls(io);
\*             return Err(io::Error::new(io::ErrorKind::InvalidData, e)); }
\* where p is what process_new_packets returned
complete_io_last_gasp(p, take, rdlen, wrlen, calls) ==
    LET last(w) ==
            IoDone(w.c, p.state, Err("InvalidData"), rdlen, wrlen,
                   Append(calls, "write_tls"), p.res.err)
    IN last(io_write_tls(p.c, take))

\* The loop of complete_io.  calls lists the calls made on the connection
\* and cause is the TLS error wrapped by an InvalidData error; neither is
\* data of the program.  A turn of the loop that returns nothing and leaves
\* the connection, the transport and eof as it found them is repeated for
\* ever: the fault NeverReturns records that.
RECURSIVE complete_io_loop(_, _, _, _, _, _, _, _, _)
complete_io_loop(c, st, io, take, until_handshaked, eof, rdlen, wrlen, calls) ==
    LET done(c1, st1, res, rd, wr, cl, cause) ==
            IoDone(c1, st1, res, rd, wr, cl, cause)
        processed(p, r, wr, cl) ==
            IF p.c.common_state.fault # "None"
            THEN done(p.c, p.state, Ok, r.rdlen, wr, cl, "None")
            ELSE IF ~p.res.ok
            THEN complete_io_last_gasp(p, take, r.rdlen, wr, cl)
            ELSE IF until_handshaked /\ ~is_handshaking(p.c)
            THEN done(p.c, p.state, Ok, r.rdlen, wr, cl, "None")
            ELSE IF ~until_handshaked
            THEN done(p.c, p.state, Ok, r.rdlen, wr, cl, "None")
            ELSE IF r.eof
            THEN done(p.c, p.state, Err("UnexpectedEof"), r.rdlen, wr, cl, "None")
            ELSE IF p.c = c /\ p.state = st /\ r.io = io /\ r.eof = eof
            THEN done([p.c EXCEPT !.common_state.fault = NeverReturns], p.state,
                      Ok, r.rdlen, wr, cl, "None")
            ELSE complete_io_loop(p.c, p.state, r.io, take, until_handshaked,
                                  r.eof, r.rdlen, wr, cl)
        read(r, wr) ==
            processed(process_new_packets(r.c, st), r, wr,
                      Append(r.calls, "process_new_packets"))
        written(w) ==
            IF w.err # "None"
            THEN done(w.c, st, Err(w.err), rdlen, w.wrlen, w.calls, "None")
            ELSE IF ~until_handshaked /\ w.wrlen > 0
            THEN done(w.c, st, Ok, rdlen, w.wrlen, w.calls, "None")
            ELSE read(complete_io_read(w.c, io, eof, rdlen, w.calls), w.wrlen)
    IN written(complete_io_write(c, take, wrlen, calls))

\* Connection::complete_io on a transport that never blocks, whose reads
\* never fail and whose writes all succeed or, if it is broken, all fail
complete_io(c, st, io, take) ==
    complete_io_loop(c, st, io, take, is_handshaking(c), FALSE, 0, 0, <<>>)

\* ------------------------------------------------------------------------
\* State
\* ------------------------------------------------------------------------
\* conn   the ConnectionCommon (with its CommonState)
\* state  the handshake state slot of the connection
\* ret    the operation called last and what it returned
VARIABLES conn, state, ret

vars == <<conn, state, ret>>

Ret(op, res, n, bytes, io) ==
    [op |-> op, res |-> res, n |-> n, bytes |-> bytes, io |-> io,
     wrlen |-> 0, calls |-> <<>>, cause |-> "None"]

\* what complete_io returned: n is the count of bytes read and wrlen that of
\* bytes written
IoRet(r) ==
    [Ret("complete_io", r.res, r.rdlen, <<>>, NoIoState)
       EXCEPT !.wrlen = r.wrlen, !.calls = r.calls, !.cause = r.cause]

\* ------------------------------------------------------------------------
\* What the peer and the caller can supply
\* ------------------------------------------------------------------------
AlertLevels == {"Warning", "Fatal", "Unknown"}

AlertDescriptions == {"CloseNotify", "UserCanceled", "HandshakeFailure"}

PeerAlerts ==
    {build_alert(l, d) : l \in AlertLevels, d \in AlertDescriptions}
      \cup {[build_alert("Fatal", "HandshakeFailure") EXCEPT !.wf = FALSE]}

\* the handshake messages a peer of this side sends, whole
PeerHandshakeMessages(is_client) ==
    {HsEncode(IF is_client THEN "ServerHello" ELSE "ClientHello", v) :
        v \in {"TLSv1_2", "TLSv1_3"}}
      \cup {HsEncode(ty, "-") : ty \in {"HelloRequest", "Finished", "KeyUpdate"}}

\* handshake records: whole messages, the two halves of a message, and a
\* whole message followed by the first half of the next one
PeerHandshakePayloads(is_client) ==
    PeerHandshakeMessages(is_client)
      \cup {<<HsHead("Finished", "-")>>, <<HsTail>>}
      \cup {HsEncode("Finished", "-") \o <<HsHead("KeyUpdate", "-")>>}

PeerAppData ==
    {build_appdata(d) : d \in {<<>>, <<7>>, <<8, 9>>}}
      \cup {[build_appdata(<<7>>) EXCEPT !.crypt = c] : c \in {"badmac", "oversized"}}

PeerRecords(is_client) ==
    {build_ccs} \cup PeerAlerts \cup PeerAppData
      \cup {Msg("Handshake", "-", "-", h, <<>>) : h \in PeerHandshakePayloads(is_client)}

\* what one read of the transport yields: records, then possibly the
\* first bytes of a further record or bytes that are no record at all
ReadTails == {"none", "partial", "garbage"}

WriteInputs == {<<>>, <<1>>, <<2, 3, 4>>}

ReadSizes == {0, 1, 2}

BufferLimits == {None, Some(1), Some(3)}

\* ------------------------------------------------------------------------
\* Operations
\* ------------------------------------------------------------------------
Alive == conn.common_state.fault = "None"

\* the result of an operation: if the process died in it, nothing else of
\* its work is observable
Finish(c, st, r) ==
    IF c.common_state.fault # "None"
    THEN /\ conn' = [conn EXCEPT !.common_state.fault = c.common_state.fault]
         /\ state' = state
         /\ ret' = Ret(r.op, Err(c.common_state.fault), 0, <<>>, NoIoState)
    ELSE /\ conn' = c
         /\ state' = st
         /\ ret' = r

Init ==
    /\ \E is_client \in BOOLEAN :
          conn = ConnectionCommon_new(CommonState_new(is_client))
    /\ state = "ExpectHello"
    /\ ret = Ret("new", Ok, 0, <<>>, NoIoState)

\* Connection::read_tls: the deframer reads from the transport.  The caller
\* calls process_new_packets after each successful read_tls, so a read finds
\* the queue of the deframer empty unless processing has failed.
ReadTls(recs, tail) ==
    /\ Alive
    /\ ~conn.message_deframer.desynced
    /\ conn.message_deframer.frames = <<>>
    /\ Len(conn.common_state.sendable_tls.chunks) <= MaxTls
    /\ len(conn.common_state.received_plaintext) <= MaxUnread
    /\ conn.common_state.record_layer.read_seq < MaxReadSeq
    /\ recs # <<>> \/ tail # "none"
    /\ Finish(read_tls(conn, recs, tail), state,
              Ret("read_tls", Ok, 1, <<>>, NoIoState))

\* Connection::read_tls on a transport at end of file
ReadTlsEof ==
    /\ Alive
    /\ Finish(conn, state, Ret("read_tls", Ok, 0, <<>>, NoIoState))

ProcessNewPackets ==
    /\ Alive
    /\ LET r == process_new_packets(conn, state)
       IN Finish(r.c, r.state,
                 Ret("process_new_packets", r.res, 0, <<>>, r.io))

\* reader().read(buf) with a buffer of n bytes
ReaderRead(n) ==
    /\ Alive
    /\ LET r == reader_read(conn, n)
       IN Finish(r.c, state, Ret("read", r.res, Len(r.bytes), r.bytes, NoIoState))

\* writer().write(data)
\* (the model caps sendable_tls itself only where the buffer limit does not
\* cut the write)
WriterWrite(data) ==
    /\ Alive
    /\ Len(conn.common_state.sendable_plaintext.chunks) < MaxPlainChunks
    /\ \/ Len(conn.common_state.sendable_tls.chunks) < MaxTls
       \/ /\ conn.common_state.traffic
          /\ apply_limit(conn.common_state.sendable_tls, Len(data)) < Len(data)
    /\ LET r == send_some_plaintext(conn, data)
       IN Finish(r.c, state, Ret("write", Ok, r.n, data, NoIoState))

\* Connection::write_tls to a transport that takes used bytes
WriteTls(used) ==
    /\ Alive
    /\ LET r == write_tls(conn, used)
       IN Finish(r.c, state, Ret("write_tls", Ok, r.n, <<>>, NoIoState))

\* the byte counts a transport takes in the model: everything, the first
\* record, or a single byte of a record not yet started
\* Connection::complete_io on a transport that delivers io and then is at
\* end of file.  (As for ReadTls, the caller does not go on reading once
\* records are left unprocessed.)
CompleteIo(io, take) ==
    /\ Alive
    /\ conn.message_deframer.frames = <<>>
    /\ conn.common_state.record_layer.read_seq < MaxReadSeq
    /\ LET returned(r) ==
               IF r.c.common_state.fault = NeverReturns
               THEN /\ conn' = r.c
                    /\ state' = r.state
                    /\ ret' = IoRet([r EXCEPT !.res = Err(NeverReturns)])
               ELSE Finish(r.c, r.state, IoRet(r))
       IN returned(complete_io(conn, state, io, take))

WriteSizes ==
    LET buf == conn.common_state.sendable_tls
    IN IF is_empty(buf) THEN {1}
       ELSE {len(buf), Head(buf.chunks).len}
              \cup (IF Head(buf.chunks).off = 0 THEN {1} ELSE {})

\* a transport that takes everything, or stalls one byte short of the end
\* of the last record
DrainSizes ==
    LET buf == conn.common_state.sendable_tls
    IN {len(buf)}
         \cup (IF conn.common_state.traffic /\ Len(buf.chunks) = 1 /\ len(buf) > 1
               THEN {len(buf) - 1} ELSE {})

SetBufferLimit(limit) ==
    /\ Alive
    /\ Finish(set_buffer_limit(conn, limit), state,
              Ret("set_buffer_limit", Ok, 0, <<>>, NoIoState))

\* CommonState::send_close_notify, called by the application
SendCloseNotify ==
    /\ Alive
    /\ Len(conn.common_state.sendable_tls.chunks) <= MaxTls
    /\ Finish([conn EXCEPT !.common_state = send_close_notify(@, 0)], state,
              Ret("send_close_notify", Ok, 0, <<>>, NoIoState))

\* what arrives once the peer has closed or the connection has failed
QuietRecords == {<<build_appdata(<<7>>)>>}

Alert(level, desc) == build_alert(level, desc)

Handshake(ty, ver) == build_handshake(ty, ver)

\* two records arriving in one read
PeerPairs(is_client) ==
    {<<build_ccs, build_ccs>>,
     <<build_appdata(<<7>>), Alert("Warning", "CloseNotify")>>,
     <<Alert("Warning", "CloseNotify"), build_appdata(<<7>>)>>,
     <<Alert("Warning", "CloseNotify"), Alert("Fatal", "HandshakeFailure")>>,
     <<Handshake(IF is_client THEN "ServerHello" ELSE "ClientHello", "TLSv1_3"),
       Handshake("Finished", "-")>>}

\* the records one read of the transport can yield
NextRecords ==
    IF conn.error = "None" /\ ~conn.peer_eof
    THEN {<<r>> : r \in PeerRecords(conn.common_state.is_client)}
           \cup PeerPairs(conn.common_state.is_client)
    ELSE QuietRecords

\* A connection driven by an arbitrary peer, while the caller reads the
\* plaintext and drains sendable_tls completely.
Next ==
    \/ \E recs \in NextRecords, tail \in {"none", "partial", "garbage"} :
          ReadTls(recs, tail)
    \/ \E tail \in {"partial", "garbage"} : ReadTls(<<>>, tail)
    \/ ProcessNewPackets
    \/ \E n \in ReadSizes : ReaderRead(n)
    \/ WriteTls(len(conn.common_state.sendable_tls))

Spec == Init /\ [][Next]_vars

\* what one read yields to a connection whose processing order is watched:
\* also a record that carries two whole handshake messages
OrderRecords ==
    NextRecords
      \cup (IF conn.error = "None" /\ ~conn.peer_eof
            THEN {<<Msg("Handshake", "-", "-",
                        HsEncode(HelloType(conn.common_state), "TLSv1_3")
                          \o HsEncode("Finished", "-"), <<>>)>>}
            ELSE {})

\* A connection driven by an arbitrary peer that sends several records, or
\* several messages in a record, at a time, while the caller reads the
\* plaintext and drains sendable_tls in pieces.
NextOrder ==
    \/ \E recs \in OrderRecords : ReadTls(recs, "none")
    \/ ProcessNewPackets
    \/ ReaderRead(2)
    \/ \E used \in WriteSizes : WriteTls(used)

SpecOrder == Init /\ [][NextOrder]_vars

\* the records of a peer that completes the handshake
HandshakeRecords(is_client) ==
    {build_ccs}
      \cup {Msg("Handshake", "-", "-", h, <<>>) :
              h \in PeerHandshakeMessages(is_client) \ {HsEncode("HelloRequest", "-")}}

\* A connection whose peer follows the handshake, while the caller writes
\* plaintext of several sizes, changes the buffer limit and drains
\* sendable_tls in pieces.
NextBuf ==
    \/ \E r \in HandshakeRecords(conn.common_state.is_client) :
          ReadTls(<<r>>, "none")
    \/ ProcessNewPackets
    \/ \E data \in WriteInputs :
          /\ Len(conn.common_state.sendable_tls.chunks) < MaxTls
          /\ WriterWrite(data)
    \/ \E used \in WriteSizes : WriteTls(used)
    \/ \E limit \in BufferLimits : SetBufferLimit(limit)

SpecBuf == Init /\ [][NextBuf]_vars

\* A connection whose peer follows the handshake, while the caller keeps
\* writing into a sendable_tls that the transport has not drained, or has
\* drained all but one byte of, and changes the buffer limit.
NextLimit ==
    \/ \E r \in HandshakeRecords(conn.common_state.is_client) :
          ReadTls(<<r>>, "none")
    \/ ProcessNewPackets
    \/ \E data \in WriteInputs : WriterWrite(data)
    \/ \E used \in DrainSizes : WriteTls(used)
    \/ \E limit \in BufferLimits : SetBufferLimit(limit)

SpecLimit == Init /\ [][NextLimit]_vars

\* what one read of a transport delivers to complete_io: a record of a peer
\* that shakes hands, sends data, closes or gives up, or bytes that are no
\* record
IoReads(is_client) ==
    {[recs |-> <<r>>, tail |-> "none"] :
        r \in HandshakeRecords(is_client)
                \cup {Alert("Warning", "CloseNotify"),
                      Alert("Fatal", "HandshakeFailure"),
                      build_appdata(<<7>>)}}
      \cup {[recs |-> <<>>, tail |-> "garbage"]}

\* the transports handed to complete_io: at most MaxStream reads deliver
\* bytes, every later one finds end of file
RECURSIVE IoStreams(_, _)
IoStreams(is_client, n) ==
    IF n = 0 THEN {<<>>}
    ELSE LET shorter == IoStreams(is_client, n - 1)
         IN shorter \cup {<<r>> \o s : r \in IoReads(is_client),
                                       s \in {t \in shorter : Len(t) = n - 1}}

IoTakes == {"all", "record", "broken"}

\* A connection whose caller leaves the I/O to complete_io, writes plaintext
\* once the handshake is complete and reads what has arrived.
NextIo ==
    \/ \E io \in IoStreams(conn.common_state.is_client, MaxStream), take \in IoTakes :
          CompleteIo(io, take)
    \/ /\ conn.common_state.traffic
       /\ Len(conn.common_state.sendable_tls.chunks) < MaxTls
       /\ WriterWrite(<<1>>)
    \/ ReaderRead(2)

SpecIo == Init /\ [][NextIo]_vars

\* the records of a peer that completes the handshake, sends data and closes
CloseRecords(is_client) ==
    {<<r>> : r \in HandshakeRecords(is_client)}
      \cup {<<build_appdata(<<7>>)>>, <<build_appdata(<<8, 9>>)>>}
      \cup {<<Alert(l, "CloseNotify")>> : l \in AlertLevels}
      \cup {<<build_appdata(<<7>>), Alert("Warning", "CloseNotify")>>,
            <<Alert("Warning", "CloseNotify"), build_appdata(<<7>>)>>}

\* A connection whose peer completes the handshake, sends data and closes,
\* while the caller reads the plaintext and drains sendable_tls, and writes
\* once the peer has closed.
NextClose ==
    \/ \E recs \in IF conn.error = "None" /\ ~conn.peer_eof
                    THEN CloseRecords(conn.common_state.is_client)
                    ELSE QuietRecords,
          tail \in {"none", "partial"} : ReadTls(recs, tail)
    \/ ReadTls(<<>>, "partial")
    \/ ProcessNewPackets
    \/ \E n \in ReadSizes : ReaderRead(n)
    \/ \E data \in {<<>>, <<1>>} : conn.peer_eof /\ WriterWrite(data)
    \/ WriteTls(len(conn.common_state.sendable_tls))

SpecClose == Init /\ [][NextClose]_vars

\* server randoms: plain, ending in the sentinel, ending in the sentinel
\* but for its last byte, and beginning with the sentinel
ServerRandoms ==
    {Random,
     SubSeq(Random, 1, 24) \o TLS12_DOWNGRADE_SENTINEL,
     SubSeq(Random, 1, 24) \o SubSeq(TLS12_DOWNGRADE_SENTINEL, 1, 7) \o <<0>>,
     TLS12_DOWNGRADE_SENTINEL \o SubSeq(Random, 1, 24)}

\* what one read yields to a client: also a ServerHello of either version
\* with any of these randoms
DowngradeRecords ==
    NextRecords
      \cup (IF conn.error = "None" /\ ~conn.peer_eof
            THEN {<<Msg("Handshake", "-", "-", HsHello("ServerHello", ver, rnd),
                        <<>>)>> :
                     ver \in {"TLSv1_2", "TLSv1_3"}, rnd \in ServerRandoms}
            ELSE {})

InitDowngrade ==
    /\ conn = ConnectionCommon_new(CommonState_new(TRUE))
    /\ state = "ExpectHello"
    /\ ret = Ret("new", Ok, 0, <<>>, NoIoState)

\* A client driven by a peer whose ServerHello may carry the downgrade
\* sentinel.
NextDowngrade ==
    \/ \E recs \in DowngradeRecords : ReadTls(recs, "none")
    \/ ProcessNewPackets
    \/ ReaderRead(2)
    \/ WriteTls(len(conn.common_state.sendable_tls))

SpecDowngrade == InitDowngrade /\ [][NextDowngrade]_vars

\* ------------------------------------------------------------------------
\* Cipher suites (suites.rs)
\* ------------------------------------------------------------------------
\* SignatureScheme::sign: the signature algorithm of a scheme; the schemes
\* that are neither RSA nor ECDSA (ED25519, ED448) decompose to Unknown
sign(scheme) ==
    CASE scheme \in {"RSA_PSS_SHA512", "RSA_PSS_SHA384", "RSA_PSS_SHA256",
                     "RSA_PKCS1_SHA512", "RSA_PKCS1_SHA384", "RSA_PKCS1_SHA256"}
           -> "RSA"
      [] scheme \in {"ECDSA_NISTP521_SHA512", "ECDSA_NISTP384_SHA384",
                     "ECDSA_NISTP256_SHA256"}
           -> "ECDSA"
      [] OTHER -> "Unknown"

TLS12_ECDSA_SCHEMES ==
    <<"ED25519", "ECDSA_NISTP521_SHA512", "ECDSA_NISTP384_SHA384",
      "ECDSA_NISTP256_SHA256">>

TLS12_RSA_SCHEMES ==
    <<"RSA_PSS_SHA512", "RSA_PSS_SHA384", "RSA_PSS_SHA256",
      "RSA_PKCS1_SHA512", "RSA_PKCS1_SHA384", "RSA_PKCS1_SHA256">>

\* SupportedCipherSuite::Tls12(&Tls12CipherSuite { .. }); hash is the
\* hmac_algorithm
Tls12CipherSuite(suite, bulk, aead_algorithm, hmac_algorithm, sign_schemes, fixed_iv_len, explicit_nonce_len, aead_alg) ==
    [tls13 |-> FALSE, suite |-> suite, bulk |-> bulk,
     aead_algorithm |-> aead_algorithm, hash |-> hmac_algorithm, kx |-> "ECDHE",
     sign |-> sign_schemes, fixed_iv_len |-> fixed_iv_len,
     explicit_nonce_len |-> explicit_nonce_len, aead_alg |-> aead_alg]

\* SupportedCipherSuite::Tls13(&Tls13CipherSuite { .. }); hash is the
\* hkdf_algorithm.  The fields of a TLS 1.2 suite it lacks are "-", <<>>, 0.
Tls13CipherSuite(suite, bulk, aead_algorithm, hkdf_algorithm) ==
    [tls13 |-> TRUE, suite |-> suite, bulk |-> bulk,
     aead_algorithm |-> aead_algorithm, hash |-> hkdf_algorithm, kx |-> "-",
     sign |-> <<>>, fixed_iv_len |-> 0, explicit_nonce_len |-> 0,
     aead_alg |-> "-"]

TLS_ECDHE_ECDSA_WITH_CHACHA20_POLY1305_SHA256 ==
    Tls12CipherSuite("TLS_ECDHE_ECDSA_WITH_CHACHA20_POLY1305_SHA256",
                     "Chacha20Poly1305", "CHACHA20_POLY1305", "SHA384",
                     TLS12_ECDSA_SCHEMES, 12, 0, "ChaCha20Poly1305")

\* the suite with the nonce parameters of AES-GCM
TLS_ECDHE_RSA_WITH_CHACHA20_POLY1305_SHA256_gcm_nonce ==
    Tls12CipherSuite("TLS_ECDHE_RSA_WITH_CHACHA20_POLY1305_SHA256",
                     "Chacha20Poly1305", "CHACHA20_POLY1305", "SHA256",
                     TLS12_RSA_SCHEMES, 4, 8, "ChaCha20Poly1305")

TLS_ECDHE_RSA_WITH_CHACHA20_POLY1305_SHA256 ==
    Tls12CipherSuite("TLS_ECDHE_RSA_WITH_CHACHA20_POLY1305_SHA256",
                     "Chacha20Poly1305", "CHACHA20_POLY1305", "SHA256",
                     TLS12_RSA_SCHEMES, 12, 0, "ChaCha20Poly1305")

TLS_ECDHE_RSA_WITH_AES_128_GCM_SHA256 ==
    Tls12CipherSuite("TLS_ECDHE_RSA_WITH_AES_128_GCM_SHA256",
                     "Aes128Gcm", "AES_128_GCM", "SHA256",
                     TLS12_RSA_SCHEMES, 4, 8, "AesGcm")

TLS_ECDHE_RSA_WITH_AES_256_GCM_SHA384 ==
    Tls12CipherSuite("TLS_ECDHE_RSA_WITH_AES_256_GCM_SHA384",
                     "Aes256Gcm", "AES_256_GCM", "SHA384",
                     TLS12_RSA_SCHEMES, 4, 8, "AesGcm")

TLS_ECDHE_ECDSA_WITH_AES_128_GCM_SHA256 ==
    Tls12CipherSuite("TLS_ECDHE_ECDSA_WITH_AES_128_GCM_SHA256",
                     "Aes128Gcm", "AES_128_GCM", "SHA256",
                     TLS12_ECDSA_SCHEMES, 4, 8, "AesGcm")

TLS_ECDHE_ECDSA_WITH_AES_256_GCM_SHA384 ==
    Tls12CipherSuite("TLS_ECDHE_ECDSA_WITH_AES_256_GCM_SHA384",
                     "Aes256Gcm", "AES_256_GCM", "SHA384",
                     TLS12_ECDSA_SCHEMES, 4, 8, "AesGcm")

TLS13_CHACHA20_POLY1305_SHA256 ==
    Tls13CipherSuite("TLS13_CHACHA20_POLY1305_SHA256", "Chacha20Poly1305",
                     "CHACHA20_POLY1305", "SHA256")

TLS13_AES_256_GCM_SHA384 ==
    Tls13CipherSuite("TLS13_AES_256_GCM_SHA384", "Aes256Gcm", "AES_256_GCM",
                     "SHA384")

TLS13_AES_128_GCM_SHA256 ==
    Tls13CipherSuite("TLS13_AES_128_GCM_SHA256", "Aes128Gcm", "AES_128_GCM",
                     "SHA256")

ALL_CIPHER_SUITES ==
    <<TLS13_AES_256_GCM_SHA384,
      TLS13_AES_128_GCM_SHA256,
      TLS13_CHACHA20_POLY1305_SHA256,
      TLS_ECDHE_ECDSA_WITH_AES_256_GCM_SHA384,
      TLS_ECDHE_ECDSA_WITH_AES_128_GCM_SHA256,
      TLS_ECDHE_ECDSA_WITH_CHACHA20_POLY1305_SHA256,
      TLS_ECDHE_RSA_WITH_AES_256_GCM_SHA384,
      TLS_ECDHE_RSA_WITH_AES_128_GCM_SHA256,
      TLS_ECDHE_RSA_WITH_CHACHA20_POLY1305_SHA256>>

DEFAULT_CIPHER_SUITES == ALL_CIPHER_SUITES

\* a version test under which a TLS 1.2 suite also serves TLS 1.3
usable_for_version_upwards(scs, version) ==
    IF scs.tls13 THEN version = "TLSv1_3"
    ELSE version \in {"TLSv1_2", "TLSv1_3"}

\* SupportedCipherSuite::usable_for_version
usable_for_version(scs, version) ==
    IF scs.tls13 THEN version = "TLSv1_3" ELSE version = "TLSv1_2"

\* a test that looks at the first scheme of the suite only
usable_for_sigalg_first_scheme(scs, sigalg) ==
    IF scs.tls13 THEN TRUE
    ELSE scs.sign # <<>> /\ sign(Head(scs.sign)) = sigalg

\* SupportedCipherSuite::usable_for_sigalg
usable_for_sigalg(scs, sigalg) ==
    IF scs.tls13 THEN TRUE
    ELSE \E i \in 1..Len(scs.sign) : sign(scs.sign[i]) = sigalg

\* Option<SupportedCipherSuite>: no suite, or one
NoSuite == <<>>

SomeSuite(scs) == <<scs>>

\* server_suites.iter().find(|x| client_suite == x.suite())
RECURSIVE find_suite(_, _)
find_suite(server_suites, client_suite) ==
    IF server_suites = <<>> THEN NoSuite
    ELSE IF Head(server_suites).suite = client_suite
    THEN SomeSuite(Head(server_suites))
    ELSE find_suite(Tail(server_suites), client_suite)

\* client_suites.contains(&id)
contains(client_suites, id) ==
    \E i \in 1..Len(client_suites) : client_suites[i] = id

\* a choice that walks the server's list where the client's is meant
RECURSIVE choose_ciphersuite_walking_server(_, _)
choose_ciphersuite_walking_server(client_suites, server_suites) ==
    IF server_suites = <<>> THEN NoSuite
    ELSE IF contains(client_suites, Head(server_suites).suite)
    THEN SomeSuite(Head(server_suites))
    ELSE choose_ciphersuite_walking_server(client_suites, Tail(server_suites))

RECURSIVE choose_ciphersuite_preferring_client(_, _)
choose_ciphersuite_preferring_client(client_suites, server_suites) ==
    IF client_suites = <<>> THEN NoSuite
    ELSE LET selected(found) ==
                 IF found # NoSuite THEN found
                 ELSE choose_ciphersuite_preferring_client(Tail(client_suites),
                                                           server_suites)
         IN selected(find_suite(server_suites, Head(client_suites)))

\* a choice that walks the client's list where the server's is meant
RECURSIVE choose_ciphersuite_walking_client(_, _)
choose_ciphersuite_walking_client(client_suites, server_suites) ==
    IF client_suites = <<>> THEN NoSuite
    ELSE LET selected(found) ==
                 IF found # NoSuite THEN found
                 ELSE choose_ciphersuite_walking_client(Tail(client_suites),
                                                        server_suites)
         IN selected(find_suite(server_suites, Head(client_suites)))

RECURSIVE choose_ciphersuite_preferring_server(_, _)
choose_ciphersuite_preferring_server(client_suites, server_suites) ==
    IF server_suites = <<>> THEN NoSuite
    ELSE IF contains(client_suites, Head(server_suites).suite)
    THEN SomeSuite(Head(server_suites))
    ELSE choose_ciphersuite_preferring_server(client_suites, Tail(server_suites))

\* all.iter().filter(|suite| suite.usable_for_sigalg(sigalg)).collect()
RECURSIVE reduce_given_sigalg(_, _)
reduce_given_sigalg(all, sigalg) ==
    IF all = <<>> THEN <<>>
    ELSE (IF usable_for_sigalg(Head(all), sigalg) THEN <<Head(all)>> ELSE <<>>)
           \o reduce_given_sigalg(Tail(all), sigalg)

\* all.iter().filter(|suite| suite.usable_for_version(version)).collect()
RECURSIVE reduce_given_version(_, _)
reduce_given_version(all, version) ==
    IF all = <<>> THEN <<>>
    ELSE (IF usable_for_version(Head(all), version) THEN <<Head(all)>> ELSE <<>>)
           \o reduce_given_version(Tail(all), version)

compatible_sigscheme_for_suites(sigscheme, common_suites) ==
    \E i \in 1..Len(common_suites) :
        usable_for_sigalg(common_suites[i], sign(sigscheme))

\* The selection functions applied to bounded inputs.  ret holds the
\* arguments (client, server, version, sigalg, scheme) and the value of the
\* last call (chosen, list, flags, flag).
RECURSIVE ListsOver(_, _)
ListsOver(S, n) ==
    IF n = 0 THEN {<<>>}
    ELSE LET shorter == ListsOver(S, n - 1)
         IN shorter \cup {<<x>> \o l : x \in S, l \in shorter}

Range(l) == {l[i] : i \in 1..Len(l)}

\* the suites of the tests test_client_pref, test_server_pref, test_pref_fails
\* and one suite of each other kind
TestSuites ==
    {TLS_ECDHE_RSA_WITH_AES_128_GCM_SHA256,
     TLS_ECDHE_RSA_WITH_AES_256_GCM_SHA384,
     TLS_ECDHE_ECDSA_WITH_AES_128_GCM_SHA256,
     TLS13_AES_128_GCM_SHA256}

TestIds == {s.suite : s \in TestSuites} \cup {"TLS_NULL_WITH_NULL_NULL"}

Versions == {"TLSv1_0", "TLSv1_2", "TLSv1_3"}

SigAlgs == {"RSA", "ECDSA", "ED25519", "Unknown"}

SigSchemes ==
    {"RSA_PSS_SHA256", "RSA_PKCS1_SHA256", "ECDSA_NISTP256_SHA256", "ED25519"}

SuiteArgs(client, server, version, sigalg, scheme) ==
    [op |-> "new", client |-> client, server |-> server, version |-> version,
     sigalg |-> sigalg, scheme |-> scheme,
     chosen |-> NoSuite, list |-> <<>>, flags |-> <<>>, flag |-> FALSE]

SuiteInputs ==
    {SuiteArgs(client, server, "TLSv1_2", "RSA", "RSA_PSS_SHA256") :
         client \in ListsOver(TestIds, MaxSuites),
         server \in ListsOver(TestSuites, MaxSuites)}
    \cup
    {SuiteArgs(<<>>, server, version, sigalg, scheme) :
         server \in ListsOver(Range(ALL_CIPHER_SUITES), MaxSuites)
                       \cup {ALL_CIPHER_SUITES},
         version \in Versions, sigalg \in SigAlgs, scheme \in SigSchemes}

InitSuites ==
    /\ conn = ConnectionCommon_new(CommonState_new(TRUE))
    /\ state = "ExpectHello"
    /\ ret \in SuiteInputs

SuiteCall(op) ==
    [ret EXCEPT !.op = op, !.chosen = NoSuite, !.list = <<>>, !.flags = <<>>,
                !.flag = FALSE]

ChoosePreferringClient ==
    /\ ret' = [SuiteCall("choose_ciphersuite_preferring_client") EXCEPT
                  !.chosen = choose_ciphersuite_preferring_client(ret.client,
                                                                  ret.server)]
    /\ UNCHANGED <<conn, state>>

ChoosePreferringServer ==
    /\ ret' = [SuiteCall("choose_ciphersuite_preferring_server") EXCEPT
                  !.chosen = choose_ciphersuite_preferring_server(ret.client,
                                                                  ret.server)]
    /\ UNCHANGED <<conn, state>>

\* usable_for_version of every suite of the list
UsableForVersion ==
    /\ ret' = [SuiteCall("usable_for_version") EXCEPT
                  !.flags = [i \in 1..Len(ret.server) |->
                                usable_for_version(ret.server[i], ret.version)]]
    /\ UNCHANGED <<conn, state>>

ReduceGivenVersion ==
    /\ ret' = [SuiteCall("reduce_given_version") EXCEPT
                  !.list = reduce_given_version(ret.server, ret.version)]
    /\ UNCHANGED <<conn, state>>

\* usable_for_sigalg of every suite of the list
UsableForSigalg ==
    /\ ret' = [SuiteCall("usable_for_sigalg") EXCEPT
                  !.flags = [i \in 1..Len(ret.server) |->
                                usable_for_sigalg(ret.server[i], ret.sigalg)]]
    /\ UNCHANGED <<conn, state>>

ReduceGivenSigalg ==
    /\ ret' = [SuiteCall("reduce_given_sigalg") EXCEPT
                  !.list = reduce_given_sigalg(ret.server, ret.sigalg)]
    /\ UNCHANGED <<conn, state>>

CompatibleSigscheme ==
    /\ ret' = [SuiteCall("compatible_sigscheme_for_suites") EXCEPT
                  !.flag = compatible_sigscheme_for_suites(ret.scheme,
                                                           ret.server)]
    /\ UNCHANGED <<conn, state>>

NextSuites ==
    \/ ChoosePreferringClient
    \/ ChoosePreferringServer
    \/ UsableForVersion
    \/ ReduceGivenVersion
    \/ UsableForSigalg
    \/ ReduceGivenSigalg
    \/ CompatibleSigscheme

SpecSuites == InitSuites /\ [][NextSuites]_vars

\* ------------------------------------------------------------------------
\* Configuration (builder.rs, client/builder.rs) and CommonState::new
\* ------------------------------------------------------------------------
\* the bounds of a configured max_fragment_size
MIN_FRAGMENT_SIZE == 32

MAX_FRAGMENT_LEN == 16384

\* MessageFragmenter::new(max_fragment_size): None is the default size
MessageFragmenter_new(max_fragment_size) ==
    IF ~max_fragment_size.some THEN Ok
    ELSE IF /\ max_fragment_size.v >= MIN_FRAGMENT_SIZE
            /\ max_fragment_size.v <= MAX_FRAGMENT_LEN
    THEN Ok
    ELSE Err("()")

\* CommonState::new with the size given: .map_err(|_| BadMaxFragmentSize)?
CommonState_new_sized(max_fragment_size, is_client) ==
    IF MessageFragmenter_new(max_fragment_size) # Ok
    THEN [res |-> Err("BadMaxFragmentSize"), made |-> <<>>]
    ELSE [res |-> Ok, made |-> <<CommonState_new(is_client)>>]

\* no connection has been constructed
NoConnection == [none |-> TRUE]

NoSuitesConfigured == Err("General(no usable cipher suites configured)")

NoKxGroupsConfigured == Err("General(no kx groups configured)")

\* a validation that looks at the cipher suites only
validate_suites_only(self) ==
    IF self.tls13_cipher_suites = <<>> /\ self.tls12_cipher_suites = <<>>
    THEN NoSuitesConfigured
    ELSE Ok

\* ConfigBuilderWithKxGroups::validate
validate(self) ==
    IF self.tls13_cipher_suites = <<>> /\ self.tls12_cipher_suites = <<>>
    THEN NoSuitesConfigured
    ELSE IF self.kx_groups = <<>>
    THEN NoKxGroupsConfigured
    ELSE Ok

\* ConfigBuilderWithKxGroups { tls13_cipher_suites, tls12_cipher_suites,
\* kx_groups }
ConfigBuilderWithKxGroups(tls13_cipher_suites, tls12_cipher_suites, kx_groups) ==
    [tls13_cipher_suites |-> tls13_cipher_suites,
     tls12_cipher_suites |-> tls12_cipher_suites,
     kx_groups |-> kx_groups]

\* the builder is consumed and nothing comes of it
Dropped == ConfigBuilderWithKxGroups(<<>>, <<>>, <<>>)

\* for_client and for_server: validate, then move the three lists into the
\* builder of the side
for_side(self) ==
    LET checked(v) == IF v # Ok THEN [res |-> v, made |-> Dropped]
                      ELSE [res |-> Ok,
                            made |-> ConfigBuilderWithKxGroups(
                                         self.tls13_cipher_suites,
                                         self.tls12_cipher_suites,
                                         self.kx_groups)]
    IN checked(validate(self))

for_client(self) == for_side(self)

for_server(self) == for_side(self)

\* ClientConfigBuilder::with_root_certificates and
\* with_custom_certificate_verifier: the lists move on
with_certificate_verifier(self) ==
    ConfigBuilderWithKxGroups(self.tls13_cipher_suites,
                              self.tls12_cipher_suites, self.kx_groups)

\* ClientConfigBuilderWithCertVerifier::with_client_cert_resolver: the lists
\* move into the ClientConfig, whose max_fragment_size starts as None
with_client_cert_resolver(self) ==
    ConfigBuilderWithKxGroups(self.tls13_cipher_suites,
                              self.tls12_cipher_suites, self.kx_groups)

ConfigTls13 == {TLS13_AES_256_GCM_SHA384, TLS13_AES_128_GCM_SHA256}

ConfigTls12 ==
    {TLS_ECDHE_RSA_WITH_AES_128_GCM_SHA256,
     TLS_ECDHE_ECDSA_WITH_AES_256_GCM_SHA384}

ConfigKxGroups == {"X25519", "SECP256R1"}

FragmentSizes ==
    {None, Some(MIN_FRAGMENT_SIZE - 1), Some(MIN_FRAGMENT_SIZE),
     Some(MAX_FRAGMENT_LEN), Some(MAX_FRAGMENT_LEN + 1)}

\* ret holds the lists handed to the builder (given), the value that holds
\* them now (stage, self), and the configuration's max_fragment_size
ConfigRet(op, res, is_client, given, stage, self, max_fragment_size) ==
    [op |-> op, res |-> res, is_client |-> is_client, given |-> given,
     stage |-> stage, self |-> self, max_fragment_size |-> max_fragment_size]

InitConfig ==
    /\ conn = NoConnection
    /\ state = "None"
    /\ \E tls13 \in ListsOver(ConfigTls13, MaxSuites),
          tls12 \in ListsOver(ConfigTls12, MaxSuites),
          kx \in ListsOver(ConfigKxGroups, MaxSuites) :
          ret = ConfigRet("with_kx_groups", Ok, TRUE,
                          ConfigBuilderWithKxGroups(tls13, tls12, kx),
                          "ConfigBuilderWithKxGroups",
                          ConfigBuilderWithKxGroups(tls13, tls12, kx), None)

ForSide(op, is_client, r) ==
    /\ ret' = ConfigRet(op, r.res, is_client, ret.given,
                        IF r.res # Ok THEN "Dropped"
                        ELSE IF is_client THEN "ClientConfigBuilder"
                        ELSE "ServerConfigBuilder",
                        r.made, None)
    /\ UNCHANGED <<conn, state>>

ForClient ==
    /\ ret.stage = "ConfigBuilderWithKxGroups"
    /\ ForSide("for_client", TRUE, for_client(ret.self))

ForServer ==
    /\ ret.stage = "ConfigBuilderWithKxGroups"
    /\ ForSide("for_server", FALSE, for_server(ret.self))

WithCertificateVerifier ==
    /\ ret.stage = "ClientConfigBuilder"
    /\ ret' = [ret EXCEPT !.op = "with_root_certificates",
                          !.stage = "ClientConfigBuilderWithCertVerifier",
                          !.self = with_certificate_verifier(ret.self)]
    /\ UNCHANGED <<conn, state>>

WithClientCertResolver ==
    /\ ret.stage = "ClientConfigBuilderWithCertVerifier"
    /\ ret' = [ret EXCEPT !.op = "with_client_cert_resolver",
                          !.stage = "ClientConfig",
                          !.self = with_client_cert_resolver(ret.self),
                          !.max_fragment_size = None]
    /\ UNCHANGED <<conn, state>>

\* the server's builder ends in a ServerConfig with the same lists
WithServerCert ==
    /\ ret.stage = "ServerConfigBuilder"
    /\ ret' = [ret EXCEPT !.op = "with_single_cert",
                          !.stage = "ServerConfig",
                          !.max_fragment_size = None]
    /\ UNCHANGED <<conn, state>>

\* config.max_fragment_size = size
SetMaxFragmentSize(size) ==
    /\ ret.stage \in {"ClientConfig", "ServerConfig"}
    /\ conn = NoConnection
    /\ ret' = [ret EXCEPT !.op = "max_fragment_size",
                          !.max_fragment_size = size]
    /\ UNCHANGED <<conn, state>>

\* a connection of the configuration's side: CommonState::new
NewConnection ==
    /\ ret.stage \in {"ClientConfig", "ServerConfig"}
    /\ conn = NoConnection
    /\ LET made(r) ==
               /\ ret' = [ret EXCEPT !.op = "new", !.res = r.res]
               /\ IF r.res = Ok
                  THEN /\ conn' = ConnectionCommon_new(r.made[1])
                       /\ state' = "ExpectHello"
                  ELSE UNCHANGED <<conn, state>>
       IN made(CommonState_new_sized(ret.max_fragment_size, ret.is_client))

NextConfig ==
    \/ ForClient
    \/ ForServer
    \/ WithCertificateVerifier
    \/ WithClientCertResolver
    \/ WithServerCert
    \/ \E size \in FragmentSizes : SetMaxFragmentSize(size)
    \/ NewConnection

SpecConfig == InitConfig /\ [][NextConfig]_vars

\* ------------------------------------------------------------------------
\* Properties
\* ------------------------------------------------------------------------
frames == conn.message_deframer.frames

IllegalCcs == "PeerMisbehavedError: illegal middlebox CCS received"

\* a call of process_new_packets that is not answered from the cache
Processing ==
    /\ ProcessNewPackets
    /\ conn.error = "None"
    /\ ~conn.message_deframer.desynced
    /\ conn'.common_state.fault = "None"

\* C1: once process_new_packets has failed on a record, the error stays
\* cached: every later call returns that same error and changes nothing (no
\* record is popped, no message reaches the handshake state, no buffer
\* grows), whatever was read in between.
C1_ErrorIsCachedAndTerminal ==
    [][/\ conn.error # "None" => conn'.error = conn.error
       /\ Processing /\ ~ret'.res.ok => conn'.error = ret'.res.err
       /\ ProcessNewPackets /\ conn.error # "None" =>
             /\ ret'.res = Err(conn.error)
             /\ conn' = conn
             /\ state' = state]_vars

\* a later call has returned the cached error while a record read after
\* the failure is still waiting in the deframer
C1_Witness ==
    /\ conn.error # "None"
    /\ ret.op = "process_new_packets"
    /\ ret.res = Err(conn.error)
    /\ frames # <<>>

\* C2: under TLS 1.3 before traffic the first ChangeCipherSpec is dropped
\* silently (only received_middlebox_ccs changes, the call succeeds), a
\* second one fails with the illegal-middlebox-CCS error; under TLS 1.2, with
\* no version yet or in traffic the rule does not apply: the flag is not
\* touched and the record is decrypted or handed to the handshake state.
C2_MiddleboxCcs ==
    [][Processing /\ frames # <<>> /\ Head(frames).typ = "ChangeCipherSpec" =>
         LET pre13 == is_tls13(conn.common_state) /\ ~conn.common_state.traffic
             popped == [conn EXCEPT !.message_deframer.frames = Tail(@)]
         IN /\ pre13 /\ ~conn.received_middlebox_ccs /\ Len(frames) = 1 =>
                 /\ ret'.res.ok
                 /\ conn' = [popped EXCEPT !.received_middlebox_ccs = TRUE]
                 /\ state' = state
            /\ pre13 /\ conn.received_middlebox_ccs =>
                 /\ ret'.res = Err(IllegalCcs)
                 /\ conn' = [popped EXCEPT !.error = IllegalCcs]
                 /\ state' = state
            /\ pre13 /\ ~conn.received_middlebox_ccs
                  /\ frames = <<build_ccs, build_ccs>> =>
                 /\ ret'.res = Err(IllegalCcs)
                 /\ conn' = [conn EXCEPT !.message_deframer.frames = <<>>,
                                         !.received_middlebox_ccs = TRUE,
                                         !.error = IllegalCcs]
                 /\ state' = state
            /\ ~pre13 =>
                 /\ conn'.received_middlebox_ccs = conn.received_middlebox_ccs
                 /\ ret'.res.err # IllegalCcs
                 /\ ret'.res.ok => state' # state]_vars

\* the second ChangeCipherSpec of a TLS 1.3 handshake has been refused
C2_Witness ==
    /\ conn.error = IllegalCcs
    /\ conn.received_middlebox_ccs
    /\ ret.res = Err(IllegalCcs)

unread == BufBytes(conn.common_state.received_plaintext)

C4_WantsRead ==
    wants_read(conn) <=>
        /\ len(conn.common_state.received_plaintext) = 0
        /\ ~conn.peer_eof
        /\ (conn.common_state.traffic \/ len(conn.common_state.sendable_tls) = 0)

\* during the handshake, with nothing to read and the peer not closed, TLS
\* records wait to be written: wants_read is false
C4_Witness ==
    /\ ~conn.common_state.traffic
    /\ len(conn.common_state.sendable_tls) > 0
    /\ len(conn.common_state.received_plaintext) = 0
    /\ ~conn.peer_eof
    /\ conn.error = "None"
    /\ ~wants_read(conn)

fill == len(conn.common_state.sendable_plaintext)

\* C5: before traffic, with the limit L set on sendable_plaintext, a write of
\* n bytes returns min(n, L - fill) and appends exactly that prefix of the
\* data; a fill of at most L stays at most L, and at a fill of L (or above
\* it, after the limit was lowered) a write returns 0.
C5_PreTrafficBufferLimit ==
    [][\A data \in WriteInputs :
         /\ WriterWrite(data)
         /\ ~conn.common_state.traffic
         /\ conn.common_state.sendable_plaintext.limit.some
         =>
         LET L == conn.common_state.sendable_plaintext.limit.v
             n == Len(data)
         IN /\ ret'.res.ok
            /\ fill <= L => ret'.n = Min(n, L - fill) /\ fill' <= L
            /\ fill >= L => ret'.n = 0
            /\ fill' = fill + ret'.n
            /\ BufBytes(conn'.common_state.sendable_plaintext)
                 = BufBytes(conn.common_state.sendable_plaintext)
                     \o SubSeq(data, 1, ret'.n)
            /\ conn'.common_state.sendable_tls = conn.common_state.sendable_tls]_vars

\* a write before traffic was cut short: it filled sendable_plaintext to
\* its limit and the rest of the data was refused
C5_Witness ==
    /\ ~conn.common_state.traffic
    /\ ret.op = "write"
    /\ 0 < ret.n
    /\ ret.n < Len(ret.bytes)
    /\ conn.common_state.sendable_plaintext.limit.some
    /\ fill = conn.common_state.sendable_plaintext.limit.v
    /\ Len(conn.common_state.sendable_plaintext.chunks) = 2

\* the records of chunks from position i on
RECURSIVE RecordsFrom(_, _)
RecordsFrom(chunks, i) ==
    IF i > Len(chunks) THEN <<>>
    ELSE <<chunks[i].data>> \o RecordsFrom(chunks, i + 1)

\* the application data carried by records, in order
RECURSIVE AppData(_)
AppData(recs) ==
    IF recs = <<>> THEN <<>>
    ELSE (IF Head(recs).typ = "ApplicationData" THEN Head(recs).data ELSE <<>>)
           \o AppData(Tail(recs))

\* the records of sendable_tls, in order
queued(c) == RecordsFrom(c.common_state.sendable_tls.chunks, 1)

\* C6: the step that enters traffic empties sendable_plaintext and appends
\* to sendable_tls encrypted application data records that carry exactly the
\* buffered bytes, once and in the order written, whatever the limit of
\* sendable_tls; in traffic sendable_plaintext stays empty, a write goes to
\* sendable_tls.
C6_FlushOnTraffic ==
    [][/\ ~conn.common_state.traffic /\ conn'.common_state.traffic =>
             LET old == Len(conn.common_state.sendable_tls.chunks)
                 new == RecordsFrom(conn'.common_state.sendable_tls.chunks, old + 1)
             IN /\ is_empty(conn'.common_state.sendable_plaintext)
                /\ AppData(new) = BufBytes(conn.common_state.sendable_plaintext)
                /\ \A i \in 1..Len(new) :
                      new[i].typ = "ApplicationData" =>
                         /\ new[i].enc
                         /\ new[i].data # <<>>
                         /\ \A j \in 1..(i - 1) :
                               new[j].typ = "ApplicationData" =>
                                  new[j].seq < new[i].seq
       /\ conn.common_state.traffic =>
             /\ conn'.common_state.traffic
             /\ is_empty(conn'.common_state.sendable_plaintext)]_vars

\* traffic has just been entered: the bytes of two buffered writes wait in
\* sendable_tls as encrypted records, in order and beyond its limit
C6_Witness ==
    /\ conn.common_state.traffic
    /\ ret.op = "process_new_packets"
    /\ ret.res.ok
    /\ AppData(queued(conn)) = <<1, 2, 3, 4>>
    /\ conn.common_state.sendable_tls.limit = Some(1)
    /\ is_empty(conn.common_state.sendable_plaintext)

\* the handshake message a TLS 1.2 peer asks a renegotiation with
RenegotiationRequest(m) ==
    /\ Len(m.hs) = 2
    /\ m.crypt = "ok"
    /\ is_handshake_type(m, IF conn.common_state.is_client
                            THEN "HelloRequest" ELSE "ClientHello")

\* C7: in TLS 1.2 traffic, processing a record that holds a whole
\* ClientHello (we are the server) or HelloRequest (we are the client)
\* succeeds, appends exactly one record to sendable_tls, the warning alert
\* no_renegotiation, and leaves the handshake state as it is; beyond the
\* record being consumed nothing else of the connection changes.
C7_RenegotiationRefused ==
    [][/\ Processing
       /\ conn.common_state.traffic
       /\ ~is_tls13(conn.common_state)
       /\ Len(frames) = 1
       /\ RenegotiationRequest(Head(frames))
       /\ conn.handshake_joiner = HandshakeJoiner_new
       /\ ~wants_close_before_encrypt(conn.common_state.record_layer)
       =>
       LET rl == conn.common_state.record_layer
           alert == [build_alert("Warning", "NoRenegotiation") EXCEPT
                        !.enc = TRUE, !.epoch = rl.write_epoch, !.seq = rl.write_seq]
       IN /\ ret'.res.ok
          /\ state' = state
          /\ conn' = [conn EXCEPT
                        !.message_deframer.frames = <<>>,
                        !.common_state.record_layer.read_seq = @ + 1,
                        !.common_state.record_layer.write_seq = @ + 1,
                        !.common_state.sendable_tls.chunks =
                            Append(@, Chunk(alert, EncodedLen(alert)))]]_vars

\* a renegotiation request has just been refused: the warning alert is the
\* last record of sendable_tls and the connection carries on
C7_Witness ==
    /\ conn.common_state.traffic
    /\ ~is_tls13(conn.common_state)
    /\ ret.op = "process_new_packets"
    /\ ret.res.ok
    /\ conn.error = "None"
    /\ state = "ExpectTraffic"
    /\ queued(conn) # <<>>
    /\ LET last == queued(conn)[Len(queued(conn))]
       IN /\ last.typ = "Alert"
          /\ last.level = "Warning"
          /\ last.description = "NoRenegotiation"

\* the encrypted records among recs, in order
RECURSIVE Sealed(_)
Sealed(recs) ==
    IF recs = <<>> THEN <<>>
    ELSE (IF Head(recs).enc THEN <<Head(recs)>> ELSE <<>>) \o Sealed(Tail(recs))

\* the encrypted records a step has appended to sendable_tls
emitted ==
    LET old == Len(conn.common_state.sendable_tls.chunks)
    IN Sealed(RecordsFrom(conn'.common_state.sendable_tls.chunks, old + 1))

\* (epoch, seq) is where the counter stands right after (epoch0, seq0): the
\* same key and the next number, or a later key and 0
Follows(epoch0, seq0, epoch, seq) ==
    \/ epoch = epoch0 /\ seq = seq0
    \/ epoch > epoch0 /\ seq = 0

AlertAtHead(desc) ==
    /\ frames # <<>>
    /\ Head(frames).typ = "Alert"
    /\ Head(frames).wf
    /\ Head(frames).description = desc

C10_Tls13WarningIsFatal ==
    [][/\ \A desc \in AlertDescriptions \ {"CloseNotify", "UserCanceled"} :
             /\ Processing
             /\ is_tls13(conn.common_state)
             /\ AlertAtHead(desc)
             /\ Head(frames).level = "Warning"
             =>
             LET old == queued(conn)
                 new == queued(conn')
             IN /\ ret'.res = Err(AlertReceived(desc))
                /\ conn'.error = AlertReceived(desc)
                /\ conn'.common_state.sent_fatal_alert
                /\ Len(new) = Len(old) + 1
                /\ new[Len(new)].typ = "Alert"
                /\ new[Len(new)].level = "Fatal"
                /\ new[Len(new)].description = "DecodeError"
                /\ state' = state
       /\ \A desc \in AlertDescriptions :
             ProcessNewPackets /\ conn.error = AlertReceived(desc) =>
                /\ ret'.res = Err(AlertReceived(desc))
                /\ conn' = conn
                /\ state' = state]_vars

\* a TLS 1.3 connection has failed on a warning alert: decode_error is the
\* last record queued and a later call has returned the cached error
C10_Witness ==
    /\ is_tls13(conn.common_state)
    /\ conn.error = AlertReceived("HandshakeFailure")
    /\ ret.op = "process_new_packets"
    /\ ret.res = Err(conn.error)
    /\ frames # <<>>
    /\ queued(conn) # <<>>
    /\ queued(conn)[Len(queued(conn))].description = "DecodeError"

\* the connection with its only waiting record consumed: the record is
\* gone from the deframer and, if it was decrypted, the read counter has
\* advanced
Consumed ==
    [conn EXCEPT
       !.message_deframer.frames = <<>>,
       !.common_state.record_layer.read_seq =
           IF is_decrypting(conn.common_state.record_layer) THEN @ + 1 ELSE @]

\* C11: a warning alert that is no close_notify, when TLS 1.3 is not
\* negotiated, and a user_canceled warning under TLS 1.3 are ignored: the
\* call succeeds and nothing changes but the record being consumed (nothing
\* is queued, peer_eof, the cached error and the handshake state stay).  A
\* fatal alert that is no close_notify fails with AlertReceived(description),
\* which is cached, and queues nothing.
C11_WarningsIgnored ==
    [][\A desc \in AlertDescriptions \ {"CloseNotify"} :
         Processing /\ AlertAtHead(desc) /\ Len(frames) = 1 =>
            /\ /\ Head(frames).level = "Warning"
               /\ (~is_tls13(conn.common_state) \/ desc = "UserCanceled")
               =>
               /\ ret'.res.ok
               /\ conn' = Consumed
               /\ state' = state
            /\ Head(frames).level = "Fatal" =>
               /\ ret'.res = Err(AlertReceived(desc))
               /\ conn' = [Consumed EXCEPT !.error = AlertReceived(desc)]
               /\ state' = state]_vars

\* under TLS 1.2, with the peer's Finished still awaited, a record has been
\* decrypted and processed with success and the state has not moved: the
\* record was a warning, and it was ignored
C11_Witness ==
    /\ conn.common_state.negotiated_version = "TLSv1_2"
    /\ state = "ExpectFinished"
    /\ conn.common_state.record_layer.read_seq > 0
    /\ conn.handshake_joiner = HandshakeJoiner_new
    /\ frames = <<>>
    /\ ret.op = "process_new_packets"
    /\ ret.res.ok
    /\ ~conn.peer_eof
    /\ conn.error = "None"

\* the last record queued in sendable_tls is the fatal alert desc
LastQueuedIsFatal(c, desc) ==
    /\ queued(c) # <<>>
    /\ LET last == queued(c)[Len(queued(c))]
       IN /\ last.typ = "Alert"
          /\ last.level = "Fatal"
          /\ last.description = desc

\* C12: while the record layer decrypts, processing an oversized record
\* queues exactly one record, the fatal alert record_overflow, and fails with
\* PeerSentOversizedRecord, which is cached; the record is not counted and
\* reaches neither the joiner nor the handshake state.
C12_RecordOverflow ==
    [][/\ Processing
       /\ frames # <<>>
       /\ Head(frames).crypt = "oversized"
       /\ is_decrypting(conn.common_state.record_layer)
       =>
       /\ ret'.res = Err("PeerSentOversizedRecord")
       /\ conn'.error = "PeerSentOversizedRecord"
       /\ Len(queued(conn')) = Len(queued(conn)) + 1
       /\ LastQueuedIsFatal(conn', "RecordOverflow")
       /\ conn'.common_state.sent_fatal_alert
       /\ conn'.common_state.record_layer.read_seq
            = conn.common_state.record_layer.read_seq
       /\ conn'.common_state.received_plaintext
            = conn.common_state.received_plaintext
       /\ conn'.handshake_joiner = conn.handshake_joiner
       /\ state' = state]_vars

\* an oversized record has been refused: record_overflow is the last record
\* queued and the error is cached
C12_Witness ==
    /\ conn.error = "PeerSentOversizedRecord"
    /\ ret.op = "process_new_packets"
    /\ ret.res = Err("PeerSentOversizedRecord")
    /\ LastQueuedIsFatal(conn, "RecordOverflow")
    /\ is_decrypting(conn.common_state.record_layer)

\* a record that fails AEAD authentication is processed while the record
\* layer decrypts
BadMacProcessed ==
    /\ Processing
    /\ frames # <<>>
    /\ Head(frames).crypt = "badmac"
    /\ is_decrypting(conn.common_state.record_layer)

\* C13: while the record layer decrypts, processing a record that fails
\* AEAD authentication queues the fatal alert bad_record_mac in sendable_tls
\* and fails with the decrypt error, which is cached.
C13_BadRecordMac ==
    [][BadMacProcessed =>
         /\ ret'.res = Err("DecryptError")
         /\ conn'.error = "DecryptError"
         /\ LastQueuedIsFatal(conn', "BadRecordMac")]_vars

\* a record has failed authentication and the decrypt error is cached, yet
\* no alert was sent for it: no fatal alert was ever sent on the connection
C13_Witness ==
    /\ conn.error = "DecryptError"
    /\ ret.op = "process_new_packets"
    /\ ret.res = Err("DecryptError")
    /\ ~conn.common_state.sent_fatal_alert
    /\ \A i \in 1..Len(queued(conn)) : queued(conn)[i].typ # "Alert"

admitting ==
    IF conn.common_state.traffic THEN conn.common_state.sendable_tls
    ELSE conn.common_state.sendable_plaintext

\* C15: set_buffer_limit(limit) sets the limits of sendable_plaintext and
\* sendable_tls to limit and changes nothing else, whatever the three
\* queues hold, even more than the new limit.  Under a limit, a write made
\* while the fill is at or above it returns 0 and changes no buffer; under
\* the limit None a write is taken in full.
C15_SetBufferLimit ==
    [][/\ \A limit \in BufferLimits : SetBufferLimit(limit) =>
             /\ conn' = [conn EXCEPT !.common_state.sendable_plaintext.limit = limit,
                                     !.common_state.sendable_tls.limit = limit]
             /\ state' = state
       /\ \A data \in WriteInputs :
             WriterWrite(data) /\ conn'.common_state.fault = "None" =>
                /\ admitting.limit.some /\ len(admitting) >= admitting.limit.v =>
                      /\ ret'.res.ok /\ ret'.n = 0
                      /\ conn' = conn
                /\ ~admitting.limit.some =>
                      ret'.res.ok /\ ret'.n = Len(data)]_vars

\* the limit has just been set below what the buffers hold: both still hold
\* more than the new limit
C15_Witness ==
    /\ ret.op = "set_buffer_limit"
    /\ conn.common_state.sendable_plaintext.limit = Some(1)
    /\ conn.common_state.sendable_tls.limit = Some(1)
    /\ len(conn.common_state.sendable_plaintext) > 1
    /\ len(conn.common_state.sendable_tls) > 1

\* C16: in traffic, under the limit L, a write of n bytes returns
\* min(n, max(0, L - len(sendable_tls))) and appends to sendable_tls, behind
\* what it held, encrypted application data records that carry exactly that
\* prefix of the data.  Under the limit 1 a write takes a byte only when
\* sendable_tls is empty, and then takes one.
C16_TrafficBufferLimit ==
    [][\A data \in WriteInputs :
         /\ WriterWrite(data)
         /\ conn.common_state.traffic
         /\ conn.common_state.sendable_tls.limit.some
         /\ conn'.common_state.fault = "None"
         =>
         LET L == conn.common_state.sendable_tls.limit.v
             held == len(conn.common_state.sendable_tls)
             old == Len(conn.common_state.sendable_tls.chunks)
             new == RecordsFrom(conn'.common_state.sendable_tls.chunks, old + 1)
         IN /\ ret'.res.ok
            /\ ret'.n = Min(Len(data), Max(0, L - held))
            /\ SubSeq(conn'.common_state.sendable_tls.chunks, 1, old)
                 = conn.common_state.sendable_tls.chunks
            /\ \A i \in 1..Len(new) : new[i].typ = "ApplicationData" /\ new[i].enc
            /\ AppData(new) = SubSeq(data, 1, ret'.n)
            /\ is_empty(conn'.common_state.sendable_plaintext)
            /\ L = 1 => /\ ret'.n > 0 => held = 0 /\ ret'.n = 1
                        /\ held > 0 => ret'.n = 0]_vars

\* under the limit 3, with one byte of an earlier record still waiting in
\* sendable_tls, a write of three bytes was cut to two, which wait encrypted
\* behind that byte
C16_Witness ==
    /\ conn.common_state.traffic
    /\ ret.op = "write"
    /\ ret.n = 2
    /\ ret.bytes = <<2, 3, 4>>
    /\ conn.common_state.sendable_tls.limit = Some(3)
    /\ Len(conn.common_state.sendable_tls.chunks) = 2
    /\ conn.common_state.sendable_tls.chunks[1].len = 1
    /\ conn.common_state.sendable_tls.chunks[2].data.data = <<2, 3>>

\* no application data record of c waiting in sendable_tls is empty, and no
\* chunk of plaintext buffered for the flush is
NoEmptyAppData(c) ==
    /\ \A i \in 1..Len(c.common_state.sendable_tls.chunks) :
          LET m == c.common_state.sendable_tls.chunks[i].data
          IN m.typ = "ApplicationData" => m.data # <<>>
    /\ \A i \in 1..Len(c.common_state.sendable_plaintext.chunks) :
          c.common_state.sendable_plaintext.chunks[i].len > 0

\* C17: no step leaves an empty ApplicationData record in sendable_tls, nor
\* an empty chunk in sendable_plaintext for the flush to turn into one.  An
\* empty write returns 0 and changes nothing, in traffic and before it; a
\* write of which the limit takes nothing returns 0 and changes nothing.
C17_NoEmptyAppData ==
    [][/\ NoEmptyAppData(conn')
       /\ WriterWrite(<<>>) => ret'.res.ok /\ ret'.n = 0 /\ conn' = conn
       /\ \A data \in WriteInputs :
             /\ WriterWrite(data)
             /\ admitting.limit.some
             /\ len(admitting) >= admitting.limit.v
             => /\ ret'.n = 0
                /\ conn' = conn]_vars

\* in traffic a whole write has just been refused by the limit while
\* sendable_tls still holds a record; the empty byte string it accepted made
\* no record
C17_Witness ==
    /\ conn.common_state.traffic
    /\ ret.op = "write"
    /\ ret.n = 0
    /\ ret.bytes # <<>>
    /\ conn.common_state.sendable_tls.limit.some
    /\ Len(conn.common_state.sendable_tls.chunks) = 1
    /\ NoEmptyAppData(conn)

\* C18: a call of process_new_packets that succeeds returns the byte length
\* of sendable_tls, the byte length of received_plaintext and peer_eof, all
\* as they stand when it returns.  A positive tls_bytes_to_write implies
\* wants_write, and wants_write holds exactly when sendable_tls holds a chunk.
C18_IoState ==
    [][ProcessNewPackets /\ ret'.res.ok /\ conn'.common_state.fault = "None" =>
         /\ ret'.io.tls_bytes_to_write = len(conn'.common_state.sendable_tls)
         /\ ret'.io.plaintext_bytes_to_read = len(conn'.common_state.received_plaintext)
         /\ ret'.io.peer_has_closed = conn'.peer_eof
         /\ ret'.io.tls_bytes_to_write > 0 => wants_write(conn')
         /\ wants_write(conn') <=> conn'.common_state.sendable_tls.chunks # <<>>]_vars

\* process_new_packets has just returned with records waiting to be
\* written and plaintext waiting to be read, and has reported both
C18_Witness ==
    /\ ret.op = "process_new_packets"
    /\ ret.res.ok
    /\ ret.io.tls_bytes_to_write > 0
    /\ ret.io.plaintext_bytes_to_read > 0
    /\ wants_write(conn)

\* C19: while the deframer is desynced and no error is cached, a call of
\* process_new_packets returns CorruptMessage and changes nothing: no queued
\* record is popped or processed and no error is cached.  No step resyncs
\* the deframer or caches an error meanwhile, so every later call returns
\* CorruptMessage too.
C19_Desynced ==
    [][/\ conn.message_deframer.desynced => conn'.message_deframer.desynced
       /\ conn.message_deframer.desynced /\ conn.error = "None" =>
             /\ conn'.error = "None"
             /\ ProcessNewPackets =>
                   /\ ret'.res = Err("CorruptMessage")
                   /\ conn' = conn
                   /\ state' = state]_vars

\* process_new_packets has just answered CorruptMessage while records
\* deframed before the stream went wrong are still queued
C19_Witness ==
    /\ ret.op = "process_new_packets"
    /\ ret.res = Err("CorruptMessage")
    /\ conn.message_deframer.desynced
    /\ conn.error = "None"
    /\ frames # <<>>

\* a step that is a call of complete_io: no other operation leaves that
\* name in ret
CompleteIoCalled == ret'.op = "complete_io" /\ vars' # vars

\* C20 as stated: a call of complete_io made while handshaking, on a
\* transport of which no write fails, returns: Ok
\* with the handshake complete, UnexpectedEof with the transport at end of
\* file and the handshake incomplete, or InvalidData with a TLS error.
C20_CompleteIoReturns ==
    [][/\ CompleteIoCalled
       /\ is_handshaking(conn)
       /\ ret'.res # Err("BrokenPipe")
       /\ conn'.common_state.fault \in {"None", NeverReturns}
       =>
       /\ conn'.common_state.fault = "None"
       /\ \/ ret'.res = Ok /\ ~is_handshaking(conn')
          \/ ret'.res = Err("UnexpectedEof") /\ is_handshaking(conn')
          \/ ret'.res = Err("InvalidData") /\ ret'.cause # "None"]_vars

\* complete_io was called while handshaking and does not return: the peer
\* has closed, so nothing is to be read, nothing is to be written and the
\* handshake is not complete
C20_Witness ==
    /\ ret.op = "complete_io"
    /\ conn.common_state.fault = NeverReturns
    /\ is_handshaking(conn)
    /\ conn.peer_eof
    /\ ~wants_read(conn)
    /\ ~wants_write(conn)
    /\ conn.error = "None"

\* the calls of complete_io made while handshaking that do not return are
\* those in which the peer's close_notify is processed before the handshake
\* completes; every other call returns as C20 states
C20_ReturnsUnlessPeerClosed ==
    [][/\ CompleteIoCalled
       /\ is_handshaking(conn)
       /\ ret'.res # Err("BrokenPipe")
       /\ conn'.common_state.fault \in {"None", NeverReturns}
       =>
       IF conn'.common_state.fault = NeverReturns
       THEN conn'.peer_eof /\ is_handshaking(conn') /\ conn'.error = "None"
       ELSE \/ ret'.res = Ok /\ ~is_handshaking(conn')
            \/ ret'.res = Err("UnexpectedEof") /\ is_handshaking(conn')
            \/ ret'.res = Err("InvalidData") /\ ret'.cause # "None"]_vars

\* C21: when process_new_packets has failed inside a call of complete_io
\* (the call made it and the connection is left with a cached error or a
\* desynced deframer), complete_io returns InvalidData wrapping that TLS
\* error, also on a transport whose writes fail; the failing call is followed
\* by exactly one call, a write_tls, and by no read_tls.
C21_LastGasp ==
    [][LET calls == ret'.calls
           k == Len(calls)
       IN /\ CompleteIoCalled
          /\ conn'.common_state.fault = "None"
          /\ \E i \in 1..k : calls[i] = "process_new_packets"
          /\ conn'.error # "None" \/ conn'.message_deframer.desynced
          =>
          /\ ret'.res = Err("InvalidData")
          /\ ret'.cause = IF conn'.error # "None" THEN conn'.error
                          ELSE "CorruptMessage"
          /\ k >= 2
          /\ calls[k] = "write_tls"
          /\ calls[k - 1] = "process_new_packets"]_vars

\* complete_io has returned InvalidData wrapping the error that
\* process_new_packets cached, after a last write that did not empty
\* sendable_tls
C21_Witness ==
    /\ ret.op = "complete_io"
    /\ ret.res = Err("InvalidData")
    /\ ret.cause = conn.error
    /\ conn.error # "None"
    /\ wants_write(conn)
    /\ Len(ret.calls) >= 2
    /\ ret.calls[Len(ret.calls)] = "write_tls"

\* how often the call named f occurs in calls
RECURSIVE Count(_, _)
Count(calls, f) ==
    IF calls = <<>> THEN 0
    ELSE (IF Head(calls) = f THEN 1 ELSE 0) + Count(Tail(calls), f)

\* C22: a call of complete_io on a connection that is not handshaking, on a
\* transport of which no write fails.  If wants_write holds it only calls
\* write_tls, until sendable_tls is empty, reads nothing and returns
\* (0, the bytes sendable_tls held).  Otherwise it calls read_tls once if
\* wants_read holds and not at all if not, then process_new_packets once,
\* and returns (after the last write_tls if that failed); no call goes
\* round the loop twice.
C22_NotHandshaking ==
    [][LET calls == ret'.calls
       IN /\ CompleteIoCalled
          /\ ~is_handshaking(conn)
          /\ ret'.res # Err("BrokenPipe")
          /\ conn'.common_state.fault = "None"
          =>
          /\ Count(calls, "read_tls") <= 1
          /\ Count(calls, "process_new_packets") <= 1
          /\ IF wants_write(conn)
             THEN /\ ret'.res = Ok
                  /\ ret'.n = 0
                  /\ ret'.wrlen = len(conn.common_state.sendable_tls)
                  /\ Len(calls) >= 1
                  /\ Count(calls, "write_tls") = Len(calls)
                  /\ conn' = [conn EXCEPT !.common_state.sendable_tls.chunks = <<>>]
             ELSE /\ ret'.wrlen = 0
                  /\ SubSeq(calls, 1, Min(2, Len(calls)))
                       = IF wants_read(conn)
                         THEN <<"read_tls", "process_new_packets">>
                         ELSE <<"process_new_packets">>
                  /\ \/ ret'.res = Ok
                        /\ Len(calls) = IF wants_read(conn) THEN 2 ELSE 1
                     \/ ret'.res = Err("InvalidData")
                        /\ Len(calls) = IF wants_read(conn) THEN 3 ELSE 2]_vars

\* complete_io, called in traffic with two records waiting, has written
\* them in two calls of write_tls and returned without reading
C22_Witness ==
    /\ ret.op = "complete_io"
    /\ ret.res = Ok
    /\ ~is_handshaking(conn)
    /\ ret.calls = <<"write_tls", "write_tls">>
    /\ ret.n = 0
    /\ ret.wrlen > 0
    /\ ~wants_write(conn)

\* the outcome of handing the records recs to process_new_packets one at a
\* time and in order, each in a call of its own, up to the first failure
RECURSIVE OneAtATime(_, _, _)
OneAtATime(c, st, recs) ==
    IF recs = <<>> THEN [c |-> c, state |-> st, res |-> Ok]
    ELSE LET next(p) ==
                 IF ~p.res.ok \/ p.c.common_state.fault # "None"
                 THEN [c |-> [p.c EXCEPT !.message_deframer.frames = Tail(recs)],
                       state |-> p.state, res |-> p.res]
                 ELSE OneAtATime(p.c, p.state, Tail(recs))
         IN next(process_new_packets(
                   [c EXCEPT !.message_deframer.frames = <<Head(recs)>>], st))

\* the handshake record m cut into records of one message each
RECURSIVE OneMessageEach(_, _)
OneMessageEach(m, hs) ==
    IF Len(hs) < 2 THEN <<>>
    ELSE <<[m EXCEPT !.hs = SubSeq(hs, 1, 2)]>>
           \o OneMessageEach(m, SubSeq(hs, 3, Len(hs)))

\* a handshake record that carries two or more whole messages
SeveralMessages(m) ==
    /\ m.typ = "Handshake"
    /\ Len(m.hs) >= 4
    /\ Len(m.hs) % 2 = 0
    /\ \A i \in 1..Len(m.hs) : m.hs[i].k = (IF i % 2 = 1 THEN "hd" ELSE "tl")

\* C23: a call of process_new_packets has the outcome of processing its
\* records one after the other, oldest first, so that an alert takes
\* effect at its place among them and the records behind a failure stay
\* queued.  The messages of one handshake record reach the handshake state
\* in the order they have in the record, as if each had come in a record of
\* its own, and none is left in the joiner for a later record to overtake.
\* write_tls takes bytes from the front of sendable_tls, and every other
\* step leaves what was queued in front of what it adds.
C23_Order ==
    [][/\ Processing =>
             LET r == OneAtATime(conn, state, frames)
             IN conn' = r.c /\ state' = r.state /\ ret'.res = r.res
       /\ /\ Processing
          /\ Len(frames) = 1
          /\ SeveralMessages(frames[1])
          /\ joiner_is_empty(conn.handshake_joiner)
          => LET m == frames[1]
                 r == OneAtATime(conn, state, OneMessageEach(m, m.hs))
             IN /\ state' = r.state
                /\ ret'.res = r.res
                /\ [conn'.common_state EXCEPT !.record_layer.read_seq = 0]
                     = [r.c.common_state EXCEPT !.record_layer.read_seq = 0]
       /\ conn'.error = "None" /\ conn'.common_state.fault = "None" =>
             conn'.handshake_joiner.frames = <<>>
       /\ LET old == conn.common_state.sendable_tls.chunks
              new == conn'.common_state.sendable_tls.chunks
          IN IF ret'.op = "write_tls" /\ vars' # vars
             THEN /\ Len(new) <= Len(old)
                  /\ RecordsFrom(new, 1)
                       = RecordsFrom(old, Len(old) - Len(new) + 1)
                  /\ ret'.n = SumLen(old) - SumLen(new)
                  /\ \A i \in 2..Len(new) : new[i] = old[Len(old) - Len(new) + i]
             ELSE /\ Len(new) >= Len(old)
                  /\ SubSeq(new, 1, Len(old)) = old]_vars

\* one call of process_new_packets has met a close_notify and then a fatal
\* alert of the same read: the peer has closed and the alert is the error
C23_Witness ==
    /\ ret.op = "process_new_packets"
    /\ ret.res = Err("AlertReceived(HandshakeFailure)")
    /\ conn.peer_eof
    /\ frames = <<>>

\* ------------------------------------------------------------------------
\* Cipher suite selection
\* ------------------------------------------------------------------------
\* positions of the client's list whose identifier some server suite carries
SharedClientPositions ==
    {i \in 1..Len(ret.client) :
        \E j \in 1..Len(ret.server) : ret.server[j].suite = ret.client[i]}

\* positions of the server's list whose identifier the client offers
SharedServerPositions ==
    {j \in 1..Len(ret.server) :
        \E i \in 1..Len(ret.client) : ret.client[i] = ret.server[j].suite}

Least(S) == CHOOSE x \in S : \A y \in S : x <= y

\* C24: choose_ciphersuite_preferring_client(client, server) returns the
\* server entry whose identifier is the first element of the client list that
\* occurs in the server list, and None iff the lists share no identifier;
\* client [X, Y] against server [Y, X] yields X.
C24_PreferringClient ==
    ret.op = "choose_ciphersuite_preferring_client" =>
        /\ ret.chosen = NoSuite <=> SharedClientPositions = {}
        /\ SharedClientPositions # {} =>
              /\ Len(ret.chosen) = 1
              /\ ret.chosen[1] \in Range(ret.server)
              /\ ret.chosen[1].suite = ret.client[Least(SharedClientPositions)]
        /\ ( /\ ret.client = <<TLS_ECDHE_RSA_WITH_AES_128_GCM_SHA256.suite,
                                TLS_ECDHE_RSA_WITH_AES_256_GCM_SHA384.suite>>
             /\ ret.server = <<TLS_ECDHE_RSA_WITH_AES_256_GCM_SHA384,
                                TLS_ECDHE_RSA_WITH_AES_128_GCM_SHA256>> )
            => ret.chosen = SomeSuite(TLS_ECDHE_RSA_WITH_AES_128_GCM_SHA256)

C24_Witness ==
    /\ ret.op = "choose_ciphersuite_preferring_client"
    /\ ret.client = <<TLS_ECDHE_RSA_WITH_AES_128_GCM_SHA256.suite,
                       TLS_ECDHE_RSA_WITH_AES_256_GCM_SHA384.suite>>
    /\ ret.server = <<TLS_ECDHE_RSA_WITH_AES_256_GCM_SHA384,
                       TLS_ECDHE_RSA_WITH_AES_128_GCM_SHA256>>
    /\ ret.chosen = SomeSuite(TLS_ECDHE_RSA_WITH_AES_128_GCM_SHA256)

\* C25: choose_ciphersuite_preferring_server(client, server) returns the
\* first entry of the server list whose identifier occurs anywhere in the
\* client list, and None iff the lists share no identifier; client [X, Y]
\* against server [Y, X] yields Y; a suite returned by either policy is a
\* member of the server list and its identifier is in the client list.
C25_PreferringServer ==
    /\ ret.op = "choose_ciphersuite_preferring_server" =>
          /\ ret.chosen = NoSuite <=> SharedServerPositions = {}
          /\ SharedServerPositions # {} =>
                ret.chosen = <<ret.server[Least(SharedServerPositions)]>>
          /\ ( /\ ret.client = <<TLS_ECDHE_RSA_WITH_AES_128_GCM_SHA256.suite,
                                  TLS_ECDHE_RSA_WITH_AES_256_GCM_SHA384.suite>>
               /\ ret.server = <<TLS_ECDHE_RSA_WITH_AES_256_GCM_SHA384,
                                  TLS_ECDHE_RSA_WITH_AES_128_GCM_SHA256>> )
              => ret.chosen = SomeSuite(TLS_ECDHE_RSA_WITH_AES_256_GCM_SHA384)
    /\ ( /\ ret.op \in {"choose_ciphersuite_preferring_client",
                          "choose_ciphersuite_preferring_server"}
         /\ ret.chosen # NoSuite )
        => /\ Len(ret.chosen) = 1
           /\ ret.chosen[1] \in Range(ret.server)
           /\ ret.chosen[1].suite \in Range(ret.client)

C25_Witness ==
    /\ ret.op = "choose_ciphersuite_preferring_server"
    /\ ret.client = <<TLS_ECDHE_RSA_WITH_AES_128_GCM_SHA256.suite,
                       TLS_ECDHE_RSA_WITH_AES_256_GCM_SHA384.suite>>
    /\ ret.server = <<TLS_ECDHE_RSA_WITH_AES_256_GCM_SHA384,
                       TLS_ECDHE_RSA_WITH_AES_128_GCM_SHA256>>
    /\ ret.chosen = SomeSuite(TLS_ECDHE_RSA_WITH_AES_256_GCM_SHA384)

\* the suites of the registry by protocol version
Tls13Suites ==
    {TLS13_AES_256_GCM_SHA384, TLS13_AES_128_GCM_SHA256,
     TLS13_CHACHA20_POLY1305_SHA256}

Tls12Suites == Range(ALL_CIPHER_SUITES) \ Tls13Suites

\* the k-th smallest member of a set of positions
Kth(S, k) == CHOOSE x \in S : Cardinality({y \in S : y < x}) = k - 1

\* list is the members of all at the positions in keep, in the order of all
SublistAt(list, all, keep) ==
    /\ Len(list) = Cardinality(keep)
    /\ \A k \in 1..Len(list) : list[k] = all[Kth(keep, k)]

UsableByVersion(scs, v) ==
    \/ scs \in Tls13Suites /\ v = "TLSv1_3"
    \/ scs \in Tls12Suites /\ v = "TLSv1_2"

\* C26: for every suite of the registry and every protocol version v,
\* usable_for_version(v) is true iff the suite is a TLS 1.3 suite and v is
\* TLS 1.3, or the suite is a TLS 1.2 suite and v is TLS 1.2;
\* reduce_given_version(all, v) is exactly the order-preserving sublist of
\* all whose members are usable for v.
C26_Version ==
    /\ ret.op = "usable_for_version" =>
          /\ Len(ret.flags) = Len(ret.server)
          /\ \A i \in 1..Len(ret.server) :
                ret.flags[i] <=> UsableByVersion(ret.server[i], ret.version)
    /\ ret.op = "reduce_given_version" =>
          SublistAt(ret.list, ret.server,
                    {i \in 1..Len(ret.server) :
                        UsableByVersion(ret.server[i], ret.version)})

C26_Witness ==
    /\ ret.op = "reduce_given_version"
    /\ ret.server = ALL_CIPHER_SUITES
    /\ ret.version = "TLSv1_2"
    /\ ret.list = <<TLS_ECDHE_ECDSA_WITH_AES_256_GCM_SHA384,
                     TLS_ECDHE_ECDSA_WITH_AES_128_GCM_SHA256,
                     TLS_ECDHE_ECDSA_WITH_CHACHA20_POLY1305_SHA256,
                     TLS_ECDHE_RSA_WITH_AES_256_GCM_SHA384,
                     TLS_ECDHE_RSA_WITH_AES_128_GCM_SHA256,
                     TLS_ECDHE_RSA_WITH_CHACHA20_POLY1305_SHA256>>

\* the usable_for_version call on the whole registry has been made
C26_WitnessFlags ==
    /\ ret.op = "usable_for_version"
    /\ ret.server = ALL_CIPHER_SUITES
    /\ ret.version = "TLSv1_3"
    /\ ret.flags = <<TRUE, TRUE, TRUE, FALSE, FALSE, FALSE, FALSE, FALSE, FALSE>>

\* some scheme of the sign list of a TLS 1.2 suite has the algorithm
SomeSchemeSigns(scs, a) == \E s \in Range(scs.sign) : sign(s) = a

UsableBySigalg(scs, a) ==
    scs \in Tls13Suites \/ (scs \in Tls12Suites /\ SomeSchemeSigns(scs, a))

\* C27: usable_for_sigalg(a) is true for every TLS 1.3 suite and every
\* signature algorithm a, and for a TLS 1.2 suite it is true iff some scheme
\* in the suite's sign list has signature algorithm a; reduce_given_sigalg is
\* the filter of the given suites by this predicate and
\* compatible_sigscheme_for_suites is its existence over the given suites.
C27_Sigalg ==
    /\ ret.op = "usable_for_sigalg" =>
          /\ Len(ret.flags) = Len(ret.server)
          /\ \A i \in 1..Len(ret.server) :
                ret.flags[i] <=> UsableBySigalg(ret.server[i], ret.sigalg)
    /\ ret.op = "reduce_given_sigalg" =>
          SublistAt(ret.list, ret.server,
                    {i \in 1..Len(ret.server) :
                        UsableBySigalg(ret.server[i], ret.sigalg)})
    /\ ret.op = "compatible_sigscheme_for_suites" =>
          (ret.flag <=> \E i \in 1..Len(ret.server) :
                           UsableBySigalg(ret.server[i], sign(ret.scheme)))

C27_Witness ==
    /\ ret.op = "reduce_given_sigalg"
    /\ ret.server = ALL_CIPHER_SUITES
    /\ ret.sigalg = "ECDSA"
    /\ ret.list = <<TLS13_AES_256_GCM_SHA384,
                     TLS13_AES_128_GCM_SHA256,
                     TLS13_CHACHA20_POLY1305_SHA256,
                     TLS_ECDHE_ECDSA_WITH_AES_256_GCM_SHA384,
                     TLS_ECDHE_ECDSA_WITH_AES_128_GCM_SHA256,
                     TLS_ECDHE_ECDSA_WITH_CHACHA20_POLY1305_SHA256>>

\* a scheme that no suite of the list can sign with is found incompatible
C27_WitnessIncompatible ==
    /\ ret.op = "compatible_sigscheme_for_suites"
    /\ ret.server = <<TLS_ECDHE_RSA_WITH_AES_128_GCM_SHA256>>
    /\ ret.scheme = "ECDSA_NISTP256_SHA256"
    /\ ~ret.flag

\* ------------------------------------------------------------------------
\* Configuration
\* ------------------------------------------------------------------------
NoSuitesGiven ==
    ret.given.tls13_cipher_suites = <<>> /\ ret.given.tls12_cipher_suites = <<>>

NoGroupsGiven == ret.given.kx_groups = <<>>

OutsideFragmentRange(size) == size.some /\ (size.v < 32 \/ size.v > 16384)

\* C28: validation rejects with a General error, before any connection
\* exists, a configuration with no cipher suites at all or with no
\* key-exchange groups; a connection is refused with BadMaxFragmentSize when
\* max fragment size is outside [32, 2^14]; for_client and for_server succeed
\* in every other case and carry the suite and group lists through unchanged
\* and in order.
C28_Validation ==
    /\ ret.op \in {"for_client", "for_server"} =>
          /\ ret.res # Ok <=> (NoSuitesGiven \/ NoGroupsGiven)
          /\ ret.res # Ok =>
                ret.res \in {NoSuitesConfigured, NoKxGroupsConfigured}
          /\ conn = NoConnection
    /\ ret.stage = "Dropped" => conn = NoConnection
    /\ conn # NoConnection => ~NoSuitesGiven /\ ~NoGroupsGiven
    /\ ret.stage \notin {"ConfigBuilderWithKxGroups", "Dropped"} =>
          ret.self = ret.given
    /\ ret.op = "new" =>
          /\ ret.res = Err("BadMaxFragmentSize")
                <=> OutsideFragmentRange(ret.max_fragment_size)
          /\ ret.res = Ok <=> conn # NoConnection
          /\ ret.res \in {Ok, Err("BadMaxFragmentSize")}

C28_Witness ==
    /\ ret.op = "new"
    /\ ret.res = Err("BadMaxFragmentSize")
    /\ ret.max_fragment_size = Some(16385)
    /\ conn = NoConnection
    /\ Len(ret.self.tls13_cipher_suites) = 2
    /\ ret.self.tls13_cipher_suites[1] # ret.self.tls13_cipher_suites[2]

\* a builder with suites and no key-exchange group is rejected
C28_WitnessNoGroups ==
    /\ ret.op = "for_server"
    /\ ret.res = NoKxGroupsConfigured
    /\ ~NoSuitesGiven

\* a configuration with TLS 1.2 suites only yields a connection
C28_WitnessConnection ==
    /\ ret.op = "new"
    /\ ret.res = Ok
    /\ conn # NoConnection
    /\ ret.given.tls13_cipher_suites = <<>>
    /\ ret.max_fragment_size = Some(32)

\* ------------------------------------------------------------------------
\* Downgrade sentinel
\* ------------------------------------------------------------------------
\* the one record waiting is a whole ServerHello for TLS 1.2, and the client
\* waits for it with nothing buffered in the joiner
Tls12HelloWaiting ==
    /\ conn.common_state.is_client
    /\ state = "ExpectHello"
    /\ joiner_is_empty(conn.handshake_joiner)
    /\ Len(frames) = 1
    /\ frames[1].typ = "Handshake"
    /\ Len(frames[1].hs) = 2
    /\ frames[1].hs[1].ty = "ServerHello"
    /\ frames[1].hs[1].ver = "TLSv1_2"

EndsInSentinel(rnd) ==
    \A i \in 1..8 : rnd[24 + i] = <<68, 79, 87, 78, 71, 82, 68, 1>>[i]

\* C29: a client that offered TLS 1.3 aborts a TLS 1.2 ServerHello whose
\* server random ends in the downgrade sentinel 44 4F 57 4E 47 52 44 01:
\* process_new_packets returns a peer-misbehaved error, the next call returns
\* the same error, and wants_write is true because a fatal alert is queued; a
\* ServerHello whose random does not end in the sentinel is accepted.
C29_Downgrade ==
    [][/\ Processing /\ Tls12HelloWaiting
          /\ EndsInSentinel(frames[1].hs[1].rnd) =>
             LET new == queued(conn')
             IN /\ ret'.res = Err(Downgrade)
                /\ conn'.error = Downgrade
                /\ wants_write(conn')
                /\ conn'.common_state.sent_fatal_alert
                /\ Len(new) = Len(queued(conn)) + 1
                /\ new[Len(new)].typ = "Alert"
                /\ new[Len(new)].level = "Fatal"
                /\ new[Len(new)].description = "IllegalParameter"
       /\ ProcessNewPackets /\ conn.error = Downgrade =>
             /\ ret'.res = Err(Downgrade)
             /\ conn' = conn
             /\ state' = state
       /\ Processing /\ Tls12HelloWaiting
          /\ ~EndsInSentinel(frames[1].hs[1].rnd) =>
             /\ ret'.res = Ok
             /\ conn'.error = "None"
             /\ state' = "ExpectCCS"
             /\ conn'.common_state.negotiated_version = "TLSv1_2"
             /\ queued(conn') = queued(conn)]_vars

\* the second call after a marked ServerHello has answered with the same
\* error, the alert still waiting to be written
C29_Witness ==
    /\ ret.op = "process_new_packets"
    /\ ret.res = Err(Downgrade)
    /\ conn.error = Downgrade
    /\ wants_write(conn)
    /\ frames # <<>>

\* a ServerHello for TLS 1.2 has been accepted
C29_WitnessAccepted ==
    /\ ret.op = "process_new_packets"
    /\ ret.res = Ok
    /\ state = "ExpectCCS"
    /\ conn.common_state.negotiated_version = "TLSv1_2"

\* ------------------------------------------------------------------------
\* Aligned handshake
\* ------------------------------------------------------------------------
Misaligned ==
    "PeerMisbehavedError: key epoch or handshake flight with pending fragment"

\* a key has been put to use between the record layers rl and rl1, over a
\* step that opened a protected record or not
KeysInstalled(rl, rl1, opened) ==
    \/ is_encrypting(rl1)
         /\ (~is_encrypting(rl) \/ rl1.write_epoch # rl.write_epoch)
    \/ is_decrypting(rl1)
         /\ (~is_decrypting(rl) \/ (opened /\ rl1.read_seq = 0))

\* the joiner once it has taken the handshake record m
Joined(m) == take_message(conn.handshake_joiner, m)

\* the whole messages the handshake record m completes, as one record
WholeMessages(m) ==
    LET cat[i \in 0..Len(Joined(m).j.frames)] ==
            IF i = 0 THEN <<>> ELSE cat[i - 1] \o Joined(m).j.frames[i].hs
    IN [m EXCEPT !.hs = cat[Len(Joined(m).j.frames)]]

\* what the call would come to had no fragment been pending: a handshake
\* record gives its whole messages to an empty joiner, any other record
\* finds the flag set
HadItBeenAligned(m) ==
    IF m.typ = "Handshake"
    THEN process_new_packets(
           [conn EXCEPT !.handshake_joiner = HandshakeJoiner_new,
                        !.message_deframer.frames = <<WholeMessages(m)>>],
           state)
    ELSE process_new_packets(
           [conn EXCEPT !.common_state.aligned_handshake = TRUE], state)

\* the one record waiting reaches the handshake state: it is no middlebox
\* ChangeCipherSpec, it opens, and the joiner can parse it
ReachesState(m) ==
    /\ ~is_middlebox_ccs(conn, m)
    /\ m.crypt = "ok"
    /\ m.wf
    /\ m.typ = "Handshake" => Joined(m).some

\* a fragment is pending when the state sees the messages of the record m
FragmentPending(m) ==
    IF m.typ = "Handshake" THEN ~joiner_is_empty(Joined(m).j)
    ELSE ~conn.common_state.aligned_handshake

\* the state would install a key on the record m
WouldInstallKeys(m) ==
    KeysInstalled(conn.common_state.record_layer,
                  HadItBeenAligned(m).c.common_state.record_layer,
                  is_decrypting(conn.common_state.record_layer))

\* C30: if a handshake record leaves a partial handshake message buffered in
\* the joiner, any state that installs new keys while handling a message
\* from that record, or while handling a later non-handshake record, fails:
\* check_aligned_handshake queues a fatal unexpected_message alert and
\* returns PeerMisbehaved, and no key is installed.  When the joiner held no
\* partial message at the snapshot check_aligned_handshake succeeds and
\* queues nothing.  The flag is the snapshot: between calls it says whether
\* the joiner is empty.
C30_AlignedHandshake ==
    [][/\ conn.error = "None" =>
             (conn.common_state.aligned_handshake
                <=> joiner_is_empty(conn.handshake_joiner))
       /\ Processing /\ Len(frames) = 1 /\ ReachesState(frames[1]) =>
             /\ FragmentPending(frames[1]) /\ WouldInstallKeys(frames[1]) =>
                   /\ ret'.res = Err(Misaligned)
                   /\ conn'.error = Misaligned
                   /\ Len(queued(conn')) > Len(queued(conn))
                   /\ LastQueuedIsFatal(conn', "UnexpectedMessage")
                   /\ ~KeysInstalled(conn.common_state.record_layer,
                                     conn'.common_state.record_layer, FALSE)
                   /\ ~joiner_is_empty(conn'.handshake_joiner)
             /\ ~FragmentPending(frames[1]) =>
                   /\ ret'.res # Err(Misaligned)
                   /\ ret'.res = HadItBeenAligned(frames[1]).res
                   /\ queued(conn') = queued(HadItBeenAligned(frames[1]).c)]_vars

\* a ChangeCipherSpec of TLS 1.2 has been refused because the handshake
\* record before it left half a message in the joiner
C30_Witness ==
    /\ ret.op = "process_new_packets"
    /\ ret.res = Err(Misaligned)
    /\ conn.common_state.negotiated_version = "TLSv1_2"
    /\ conn.common_state.record_layer.decrypt_state = "Prepared"
    /\ ~joiner_is_empty(conn.handshake_joiner)
    /\ LastQueuedIsFatal(conn, "UnexpectedMessage")

\* a Finished of TLS 1.3 has been refused because its record went on with
\* the first half of a further message
C30_WitnessSameRecord ==
    /\ ret.op = "process_new_packets"
    /\ ret.res = Err(Misaligned)
    /\ is_tls13(conn.common_state)
    /\ ~joiner_is_empty(conn.handshake_joiner)
    /\ LastQueuedIsFatal(conn, "UnexpectedMessage")

\* with the joiner empty a state has installed keys
C30_WitnessAligned ==
    /\ ret.op = "process_new_packets"
    /\ ret.res = Ok
    /\ conn.common_state.aligned_handshake
    /\ is_decrypting(conn.common_state.record_layer)
    /\ queued(conn) = <<>>


\* ------------------------------------------------------------------------
\* Sending at the close threshold of the sequence space
\* ------------------------------------------------------------------------
\* the caller writes application data into a connection in traffic whose
\* outgoing sequence number has reached the threshold, with sequence space
\* left for the close_notify and the fragment
SendAtCloseThreshold ==
    /\ conn.common_state.traffic
    /\ is_encrypting(conn.common_state.record_layer)
    /\ wants_close_before_encrypt(conn.common_state.record_layer)
    /\ ret'.op = "write"
    /\ vars' # vars

IsCloseNotify(m) ==
    m.typ = "Alert" /\ m.level = "Warning" /\ m.description = "CloseNotify"

\* C31: when the outgoing sequence number has reached the close threshold,
\* a send ends, and has queued a close_notify alert record ahead of the
\* fragment.
C31_SendTerminates ==
    [][SendAtCloseThreshold =>
          /\ conn'.common_state.fault = "None"
          /\ LET old == Len(conn.common_state.sendable_tls.chunks)
                 new == RecordsFrom(conn'.common_state.sendable_tls.chunks, old + 1)
             IN new # <<>> => IsCloseNotify(new[1])]_vars

\* a send at the threshold has exhausted the stack, and has queued nothing
C31_Witness ==
    /\ ret.op = "write"
    /\ conn.common_state.fault = "stack overflow"
    /\ conn.common_state.traffic
    /\ wants_close_before_encrypt(conn.common_state.record_layer)
    /\ ~encrypt_exhausted(conn.common_state.record_layer)

\* the only sends at the threshold that end are those that send nothing
C31_EndsOnlyIfNothingSent ==
    [][SendAtCloseThreshold /\ conn'.common_state.fault = "None"
          => conn'.common_state.sendable_tls = conn.common_state.sendable_tls]_vars


\* ------------------------------------------------------------------------
\* Rejections by the handshake state
\* ------------------------------------------------------------------------
InappropriateErrors == {"InappropriateMessage", "InappropriateHandshakeMessage"}

\* the message msg reaches the current state (it is not a renegotiation
\* request refused by the driver)
ReachesHandle(msg) ==
    /\ state # "None"
    /\ ~(/\ conn.common_state.traffic
         /\ ~is_tls13(conn.common_state)
         /\ is_handshake_type(msg, IF conn.common_state.is_client
                                   THEN "HelloRequest" ELSE "ClientHello"))

\* what the driver adds to the outcome h of the state: one fatal
\* unexpected_message record, and nothing else
AddsOneUnexpectedMessage(h, p) ==
    LET old == Len(h.cs.sendable_tls.chunks)
        new == RecordsFrom(p.cs.sendable_tls.chunks, old + 1)
    IN /\ SubSeq(p.cs.sendable_tls.chunks, 1, old) = h.cs.sendable_tls.chunks
       /\ Len(new) = 1
       /\ new[1].typ = "Alert"
       /\ new[1].level = "Fatal"
       /\ new[1].description = "UnexpectedMessage"
       /\ new[1].enc = is_encrypting(h.cs.record_layer)
       /\ p.cs.sent_fatal_alert
       /\ p.cs.received_plaintext = h.cs.received_plaintext
       /\ p.cs.sendable_plaintext = h.cs.sendable_plaintext

\* C32: when the current state rejects a message with InappropriateMessage
\* or InappropriateHandshakeMessage, the driver queues exactly one fatal
\* unexpected_message alert and returns that error; for every other error of
\* the state the driver returns the error and queues nothing itself.
C32_Rejection ==
    \A rec \in PeerRecords(conn.common_state.is_client) :
       Alive /\ ReachesHandle(rec) =>
          LET h == handle(state, conn.common_state, rec)
              p == process_main_protocol(conn.common_state, rec, state)
          IN ~h.res.ok =>
                /\ p.res = h.res
                /\ IF h.res.err \in InappropriateErrors
                   THEN AddsOneUnexpectedMessage(h, p)
                   ELSE p.cs = h.cs

\* process_new_packets has returned the rejection of the state, and the
\* alert is the last record queued
C32_Witness ==
    /\ ret.op = "process_new_packets"
    /\ ~ret.res.ok
    /\ ret.res.err \in InappropriateErrors
    /\ conn.error = ret.res.err
    /\ LastQueuedIsFatal(conn, "UnexpectedMessage")
    /\ Len(queued(conn)) = 1

\* process_new_packets has returned another error of the state: a key
\* change in the middle of a fragmented message, which the state itself
\* answers with its alert
C32_WitnessOtherError ==
    /\ ret.op = "process_new_packets"
    /\ ~ret.res.ok
    /\ ret.res = check_aligned_handshake([conn.common_state EXCEPT
                                             !.aligned_handshake = FALSE]).res
    /\ conn.error = ret.res.err
    /\ Len(queued(conn)) = 1


\* ------------------------------------------------------------------------
\* Records of the connection itself and the buffer limit
\* ------------------------------------------------------------------------
\* A connection whose peer sends handshake messages in any order, while the
\* caller writes plaintext, lowers the buffer limit, closes, and drains
\* sendable_tls.
NextAlerts ==
    \/ \E r \in HandshakeRecords(conn.common_state.is_client) :
          ReadTls(<<r>>, "none")
    \/ ProcessNewPackets
    \/ \E data \in WriteInputs : WriterWrite(data)
    \/ WriteTls(len(conn.common_state.sendable_tls))
    \/ \E limit \in BufferLimits \ {None} : SetBufferLimit(limit)
    \/ SendCloseNotify

SpecAlerts == Init /\ [][NextAlerts]_vars

\* the connection with both limits lifted
Unlimited(c) == set_buffer_limit(c, None)

\* the chunks of sendable_tls added by the step
NewChunks ==
    SubSeq(conn'.common_state.sendable_tls.chunks,
           Len(conn.common_state.sendable_tls.chunks) + 1,
           Len(conn'.common_state.sendable_tls.chunks))

\* sequence space is left for the records of the step
BelowCloseThreshold == ~wants_close_before_encrypt(conn.common_state.record_layer)

\* C33: records queued by the connection itself (handshake messages,
\* close_notify, fatal alerts) are appended to sendable_tls in full whatever
\* the limit and the fill: processing queues what it would queue with no
\* limit at all, every record whole.  Each send_close_notify appends one
\* warning close_notify record, encrypted iff the record layer encrypts.
\* (Below the close threshold of the sequence space.)
C33_OwnRecordsUnlimited ==
    [][/\ BelowCloseThreshold /\ conn'.common_state.fault = "None"
       /\ ret'.op \in {"process_new_packets", "send_close_notify"}
       /\ vars' # vars
       =>
       /\ conn.common_state.sendable_tls.chunks
            = SubSeq(conn'.common_state.sendable_tls.chunks, 1,
                     Len(conn.common_state.sendable_tls.chunks))
       /\ \A i \in 1..Len(NewChunks) :
             /\ NewChunks[i].off = 0
             /\ NewChunks[i].len = EncodedLen(NewChunks[i].data)
       /\ ret'.op = "process_new_packets" =>
             conn'.common_state.sendable_tls.chunks
               = process_new_packets(Unlimited(conn), state).c.common_state.sendable_tls.chunks
       /\ ret'.op = "send_close_notify" =>
             /\ Len(NewChunks) = 1
             /\ IsCloseNotify(NewChunks[1].data)
             /\ NewChunks[1].data.enc = is_encrypting(conn.common_state.record_layer)
             /\ conn'.common_state.sent_fatal_alert = conn.common_state.sent_fatal_alert]_vars

\* sendable_tls is over its limit
OverLimit(c) ==
    /\ c.common_state.sendable_tls.limit.some
    /\ len(c.common_state.sendable_tls) > c.common_state.sendable_tls.limit.v

\* send_close_notify has been called twice, the second time into a buffer
\* that the first record had filled beyond its limit: two encrypted
\* close_notify records are queued
C33_Witness ==
    /\ ret.op = "send_close_notify"
    /\ OverLimit(conn)
    /\ Len(queued(conn)) = 2
    /\ IsCloseNotify(queued(conn)[1]) /\ queued(conn)[1].enc
    /\ IsCloseNotify(queued(conn)[2]) /\ queued(conn)[2].enc
    /\ OverLimit([conn EXCEPT !.common_state.sendable_tls.chunks = <<@[1]>>])

\* a fatal alert has been queued in full over the limit
C33_WitnessFatal ==
    /\ ret.op = "process_new_packets"
    /\ ~ret.res.ok
    /\ OverLimit(conn)
    /\ Len(queued(conn)) >= 2
    /\ LastQueuedIsFatal(conn, "UnexpectedMessage")

\* the limit cuts what the writer admits
C33_WitnessWriterCut ==
    /\ ret.op = "write"
    /\ conn.common_state.traffic
    /\ ret.n < Len(ret.bytes)


\* ------------------------------------------------------------------------
\* The downgrade marker on connection randoms
\* ------------------------------------------------------------------------
\* 32-byte randoms made of a front of 24 bytes and a back of 8
RandomFronts ==
    {[i \in 1..24 |-> 0], [i \in 1..24 |-> 255],
     TLS12_DOWNGRADE_SENTINEL \o [i \in 1..16 |-> 7]}

RandomBacks ==
    {[i \in 1..8 |-> 0], [i \in 1..8 |-> 255],
     TLS12_DOWNGRADE_SENTINEL,
     SubSeq(TLS12_DOWNGRADE_SENTINEL, 1, 7) \o <<0>>,
     <<69>> \o SubSeq(TLS12_DOWNGRADE_SENTINEL, 2, 8),
     SubSeq(TLS12_DOWNGRADE_SENTINEL, 2, 8) \o <<1>>}

Randoms == {f \o b : f \in RandomFronts, b \in RandomBacks}

ClientRandoms == {[i \in 1..32 |-> 0], [i \in 1..24 |-> 9] \o TLS12_DOWNGRADE_SENTINEL}

RandomsRet(op, given, self, panic, v) ==
    [op |-> op, given |-> given, self |-> self, panic |-> panic, v |-> v]

InitRandoms ==
    /\ conn = NoConnection
    /\ state = "None"
    /\ \E client \in ClientRandoms, server \in Randoms, we_are_client \in BOOLEAN :
          LET r == ConnectionRandoms_new(client, server, we_are_client)
          IN ret = RandomsRet("new", r, r, FALSE, FALSE)

\* a failed assertion ends the thread: the randoms are not used again
SetTls12DowngradeMarker ==
    /\ ~ret.panic
    /\ LET r == set_tls12_downgrade_marker(ret.self)
       IN ret' = RandomsRet("set_tls12_downgrade_marker", ret.self, r.self,
                            r.panic, FALSE)
    /\ UNCHANGED <<conn, state>>

HasTls12DowngradeMarker ==
    /\ ~ret.panic
    /\ LET r == has_tls12_downgrade_marker(ret.self)
       IN ret' = RandomsRet("has_tls12_downgrade_marker", ret.self, ret.self,
                            r.panic, r.v)
    /\ UNCHANGED <<conn, state>>

NextRandoms == SetTls12DowngradeMarker \/ HasTls12DowngradeMarker

SpecRandoms == InitRandoms /\ [][NextRandoms]_vars

\* C34: set_tls12_downgrade_marker, allowed on the server only, overwrites
\* exactly the last 8 bytes of the server random with 44 4F 57 4E 47 52 44 01
\* and leaves its first 24 bytes and the client random as they were;
\* has_tls12_downgrade_marker, allowed on the client only, is true iff the
\* last 8 bytes of the server random are that sentinel.
C34_Marker ==
    /\ ret.op = "set_tls12_downgrade_marker" =>
          /\ ret.panic = ret.given.we_are_client
          /\ ~ret.panic =>
                /\ \A i \in 1..8 :
                      ret.self.server[24 + i] = <<68, 79, 87, 78, 71, 82, 68, 1>>[i]
                /\ \A i \in 1..24 : ret.self.server[i] = ret.given.server[i]
                /\ Len(ret.self.server) = 32
                /\ ret.self.client = ret.given.client
                /\ ret.self.we_are_client = ret.given.we_are_client
    /\ ret.op = "has_tls12_downgrade_marker" =>
          /\ ret.panic = ~ret.given.we_are_client
          /\ ~ret.panic =>
                /\ ret.v <=> EndsInSentinel(ret.given.server)
                /\ ret.self = ret.given

\* the server has marked a random that did not carry the marker, and whose
\* front was not all zeros
C34_Witness ==
    /\ ret.op = "set_tls12_downgrade_marker"
    /\ ~ret.panic
    /\ ~EndsInSentinel(ret.given.server)
    /\ EndsInSentinel(ret.self.server)
    /\ ret.given.server[1] = 255

\* the client has found the marker
C34_WitnessFound ==
    /\ ret.op = "has_tls12_downgrade_marker"
    /\ ~ret.panic
    /\ ret.v

\* the client has found no marker in a random that misses it by one byte
C34_WitnessNotFound ==
    /\ ret.op = "has_tls12_downgrade_marker"
    /\ ~ret.panic
    /\ ~ret.v
    /\ \A i \in 1..7 : ret.given.server[24 + i] = TLS12_DOWNGRADE_SENTINEL[i]

\* the assertion of either function has failed on the wrong side
C34_WitnessAssert ==
    /\ ret.panic
    /\ ret.op = "set_tls12_downgrade_marker"
    /\ ret.given.we_are_client


\* ------------------------------------------------------------------------
\* The suite table
\* ------------------------------------------------------------------------
\* the identifiers of the suites, by what they name
Tls13Names ==
    {"TLS13_AES_128_GCM_SHA256", "TLS13_AES_256_GCM_SHA384",
     "TLS13_CHACHA20_POLY1305_SHA256"}

Tls12AesGcmNames ==
    {"TLS_ECDHE_ECDSA_WITH_AES_128_GCM_SHA256",
     "TLS_ECDHE_ECDSA_WITH_AES_256_GCM_SHA384",
     "TLS_ECDHE_RSA_WITH_AES_128_GCM_SHA256",
     "TLS_ECDHE_RSA_WITH_AES_256_GCM_SHA384"}

Tls12ChachaNames ==
    {"TLS_ECDHE_ECDSA_WITH_CHACHA20_POLY1305_SHA256",
     "TLS_ECDHE_RSA_WITH_CHACHA20_POLY1305_SHA256"}

\* the nonce parameters of a suite are those of the cipher its identifier
\* names
NonceParametersFit(scs) ==
    /\ scs.suite \in Tls12AesGcmNames =>
          ~scs.tls13 /\ scs.fixed_iv_len = 4 /\ scs.explicit_nonce_len = 8
    /\ scs.suite \in Tls12ChachaNames =>
          ~scs.tls13 /\ scs.fixed_iv_len = 12 /\ scs.explicit_nonce_len = 0

\* the suites of the state: those given and those returned
SuitesOfState ==
    Range(ret.server) \cup Range(ret.list)
      \cup (IF ret.chosen = NoSuite THEN {} ELSE {ret.chosen[1]})

\* C35: every TLS 1.2 AES-GCM suite of the table has fixed_iv_len = 4 and
\* explicit_nonce_len = 8, every TLS 1.2 ChaCha20-Poly1305 suite has
\* fixed_iv_len = 12 and explicit_nonce_len = 0; the table holds exactly the
\* three TLS 1.3 suites and the six TLS 1.2 ECDHE suites, each once, the
\* TLS 1.3 suites first.
C35_SuiteTable ==
    /\ \A i \in 1..Len(ALL_CIPHER_SUITES) : NonceParametersFit(ALL_CIPHER_SUITES[i])
    /\ \A scs \in SuitesOfState : NonceParametersFit(scs)
    /\ Len(ALL_CIPHER_SUITES) = 9
    /\ {ALL_CIPHER_SUITES[i].suite : i \in 1..9}
         = Tls13Names \cup Tls12AesGcmNames \cup Tls12ChachaNames
    /\ \A i, j \in 1..9 :
          ALL_CIPHER_SUITES[i].suite = ALL_CIPHER_SUITES[j].suite => i = j
    /\ \A i \in 1..3 :
          ALL_CIPHER_SUITES[i].tls13 /\ ALL_CIPHER_SUITES[i].suite \in Tls13Names
    /\ \A i \in 4..9 :
          /\ ~ALL_CIPHER_SUITES[i].tls13
          /\ ALL_CIPHER_SUITES[i].kx = "ECDHE"
          /\ ALL_CIPHER_SUITES[i].suite \in Tls12AesGcmNames \cup Tls12ChachaNames

\* the whole table has been reduced to TLS 1.2: the six suites left are
\* four of AES-GCM and two of ChaCha20-Poly1305
C35_Witness ==
    /\ ret.op = "reduce_given_version"
    /\ ret.server = ALL_CIPHER_SUITES
    /\ ret.version = "TLSv1_2"
    /\ Len(ret.list) = 6
    /\ Cardinality({i \in 1..6 : ret.list[i].fixed_iv_len = 4
                                   /\ ret.list[i].explicit_nonce_len = 8}) = 4
    /\ Cardinality({i \in 1..6 : ret.list[i].fixed_iv_len = 12
                                   /\ ret.list[i].explicit_nonce_len = 0}) = 2


\* the hash an identifier names
Sha256Names ==
    {"TLS13_AES_128_GCM_SHA256", "TLS13_CHACHA20_POLY1305_SHA256",
     "TLS_ECDHE_ECDSA_WITH_AES_128_GCM_SHA256",
     "TLS_ECDHE_RSA_WITH_AES_128_GCM_SHA256",
     "TLS_ECDHE_ECDSA_WITH_CHACHA20_POLY1305_SHA256",
     "TLS_ECDHE_RSA_WITH_CHACHA20_POLY1305_SHA256"}

Sha384Names ==
    {"TLS13_AES_256_GCM_SHA384",
     "TLS_ECDHE_ECDSA_WITH_AES_256_GCM_SHA384",
     "TLS_ECDHE_RSA_WITH_AES_256_GCM_SHA384"}

NamedHash(name) == IF name \in Sha384Names THEN "SHA384" ELSE "SHA256"

\* the bulk cipher an identifier names, and its AEAD algorithms
NamedBulk(name) ==
    IF name \in {"TLS13_AES_128_GCM_SHA256",
                 "TLS_ECDHE_ECDSA_WITH_AES_128_GCM_SHA256",
                 "TLS_ECDHE_RSA_WITH_AES_128_GCM_SHA256"}
    THEN [bulk |-> "Aes128Gcm", aead_algorithm |-> "AES_128_GCM", aead_alg |-> "AesGcm"]
    ELSE IF name \in Sha384Names
    THEN [bulk |-> "Aes256Gcm", aead_algorithm |-> "AES_256_GCM", aead_alg |-> "AesGcm"]
    ELSE [bulk |-> "Chacha20Poly1305", aead_algorithm |-> "CHACHA20_POLY1305",
          aead_alg |-> "ChaCha20Poly1305"]

CipherFits(scs) ==
    /\ scs.bulk = NamedBulk(scs.suite).bulk
    /\ scs.aead_algorithm = NamedBulk(scs.suite).aead_algorithm
    /\ ~scs.tls13 => scs.aead_alg = NamedBulk(scs.suite).aead_alg

HashFits(scs) == scs.hash = NamedHash(scs.suite)

\* C36: every entry of the suite table carries the hash its identifier
\* names (SHA256 or SHA384, for HMAC in TLS 1.2 and HKDF in TLS 1.3) and the
\* AEAD algorithm and bulk tag of the cipher it names; so entries that name
\* the same hash derive keys with the same hash.
C36_HashFits ==
    /\ \A i \in 1..Len(ALL_CIPHER_SUITES) :
          HashFits(ALL_CIPHER_SUITES[i]) /\ CipherFits(ALL_CIPHER_SUITES[i])
    /\ \A scs \in SuitesOfState : HashFits(scs) /\ CipherFits(scs)
    /\ \A i, j \in 1..Len(ALL_CIPHER_SUITES) :
          NamedHash(ALL_CIPHER_SUITES[i].suite) = NamedHash(ALL_CIPHER_SUITES[j].suite)
             => ALL_CIPHER_SUITES[i].hash = ALL_CIPHER_SUITES[j].hash

\* the table reduced to the suites for ECDSA keeps
\* TLS_ECDHE_ECDSA_WITH_CHACHA20_POLY1305_SHA256, which derives its keys with
\* SHA384
C36_Witness ==
    /\ ret.op = "reduce_given_sigalg"
    /\ ret.server = ALL_CIPHER_SUITES
    /\ ret.sigalg = "ECDSA"
    /\ \E i \in 1..Len(ret.list) :
          /\ ret.list[i].suite = "TLS_ECDHE_ECDSA_WITH_CHACHA20_POLY1305_SHA256"
          /\ ret.list[i].hash = "SHA384"

\* every other entry carries the hash it names, and every entry the cipher
C36_AllButOneFit ==
    /\ \A i \in 1..Len(ALL_CIPHER_SUITES) :
          /\ CipherFits(ALL_CIPHER_SUITES[i])
          /\ ALL_CIPHER_SUITES[i] # TLS_ECDHE_ECDSA_WITH_CHACHA20_POLY1305_SHA256
                => HashFits(ALL_CIPHER_SUITES[i])


\* ------------------------------------------------------------------------
\* The state slot
\* ------------------------------------------------------------------------
\* A connection driven by an arbitrary peer, while the caller reads and
\* writes plaintext and drains sendable_tls completely.
NextAny ==
    \/ \E recs \in {s \in NextRecords : Len(s) = 1} : ReadTls(recs, "none")
    \/ ReadTls(<<>>, "garbage")
    \/ ProcessNewPackets
    \/ ReaderRead(2)
    \/ /\ Len(conn.common_state.sendable_tls.chunks) < MaxTls
       /\ WriterWrite(<<1>>)
    \/ WriteTls(len(conn.common_state.sendable_tls))

SpecAny == Init /\ [][NextAny]_vars

\* C37: the state slot is empty only if an error is cached, so
\* process_main_protocol is never entered with an empty slot: its
\* state.take().unwrap() does not panic.
C37_StateSlot ==
    /\ state = "None" => conn.error # "None"
    /\ conn.common_state.fault # "panic: unwrap on None"
    /\ conn.error = "None" /\ Alive =>
          process_new_packets(conn, state).c.common_state.fault
             # "panic: unwrap on None"

\* the state has rejected a message: the slot is empty, the error is cached
\* and a further record of the peer is waiting
C37_Witness ==
    /\ state = "None"
    /\ conn.error # "None"
    /\ ret.op = "read_tls"
    /\ frames # <<>>


\* ------------------------------------------------------------------------
\* Fatal alerts
\* ------------------------------------------------------------------------
\* C38: send_fatal_alert is never called when sent_fatal_alert is true
\* already (its debug assertion holds), so at most one fatal alert is sent,
\* whatever the peer sends.
C38_OneFatalAlert ==
    /\ ~conn.common_state.debug_assert_failed
    /\ Cardinality({i \in 1..Len(queued(conn)) :
                       queued(conn)[i].typ = "Alert"
                          /\ queued(conn)[i].level = "Fatal"}) <= 1

\* a second fatal alert has been sent: after a close_notify with an unknown
\* level was answered with illegal_parameter and taken as the close, a
\* further record was refused
C38_Witness ==
    /\ conn.common_state.debug_assert_failed
    /\ conn.peer_eof
    /\ ret.op = "process_new_packets"
    /\ ~ret.res.ok

\* the assertion fails after no other input: a connection that has sent a
\* fatal alert carries on only after a close_notify with an unknown level
C38_OnlyAfterUnknownClose ==
    /\ conn.common_state.debug_assert_failed => conn.peer_eof
    /\ conn.common_state.sent_fatal_alert /\ conn.error = "None" => conn.peer_eof


\* a fatal alert waits in sendable_tls
FatalQueued(c) ==
    \E i \in 1..Len(queued(c)) :
       queued(c)[i].typ = "Alert" /\ queued(c)[i].level = "Fatal"

\* C39: a call of process_new_packets in which the driver queues a fatal
\* alert returns an error, which is cached; so after a call that returned Ok
\* sent_fatal_alert is false and no fatal alert is in sendable_tls.
C39_FatalMeansError ==
    [][/\ Processing /\ conn'.common_state.sent_fatal_alert
          /\ ~conn.common_state.sent_fatal_alert =>
             ~ret'.res.ok /\ conn'.error = ret'.res.err
       /\ ProcessNewPackets /\ ret'.res.ok =>
             ~conn'.common_state.sent_fatal_alert /\ ~FatalQueued(conn')]_vars

\* process_new_packets has answered a close_notify of unknown level with the
\* fatal alert illegal_parameter, and has returned Ok
C39_Witness ==
    /\ ret.op = "process_new_packets"
    /\ ret.res.ok
    /\ conn.error = "None"
    /\ conn.common_state.sent_fatal_alert
    /\ LastQueuedIsFatal(conn, "IllegalParameter")

\* a call that queues a fatal alert returns Ok only if a close_notify of
\* unknown level is among the records it processes
C39_OnlyUnknownClose ==
    [][Processing /\ conn'.common_state.sent_fatal_alert
          /\ ~conn.common_state.sent_fatal_alert /\ ret'.res.ok =>
             \E i \in 1..Len(frames) :
                /\ frames[i].typ = "Alert"
                /\ frames[i].level = "Unknown"
                /\ frames[i].description = "CloseNotify"]_vars


\* ------------------------------------------------------------------------
\* Progress of the caller
\* ------------------------------------------------------------------------
\* reader().read into a buffer that is not empty would block
ReadWouldBlock(c) == reader_read(c, 1).res = Err("WouldBlock")

\* C40: in a state with no cached error, if reader().read on a non-empty
\* buffer returns WouldBlock then wants_read() or wants_write() is true,
\* also when close_notify has been received while the deframer still holds
\* unprocessed bytes.
C40_NeverWithoutProgress ==
    conn.error = "None" /\ Alive /\ ReadWouldBlock(conn) =>
       wants_read(conn) \/ wants_write(conn)

\* the peer has closed and the deframer holds the first bytes of a further
\* record: read has returned WouldBlock, and the connection wants neither to
\* read nor to write
C40_Witness ==
    /\ ret.op = "read"
    /\ ret.res = Err("WouldBlock")
    /\ conn.error = "None"
    /\ conn.peer_eof
    /\ has_pending(conn.message_deframer)
    /\ frames = <<>>
    /\ ~wants_read(conn)
    /\ ~wants_write(conn)

\* read blocks without any I/O wanted in no other state
C40_OnlyAfterClose ==
    conn.error = "None" /\ Alive /\ ReadWouldBlock(conn)
       /\ ~(conn.peer_eof /\ has_pending(conn.message_deframer)) =>
          wants_read(conn) \/ wants_write(conn)

=============================================================================
